---- MODULE Spec2Model ----
(***************************************************************************)
(* Model of the wise agent loop (github.com/j0lvera/wise): the step/loop   *)
(* controller (agent.BaseAgent and wise.baseAgent), the bash action        *)
(* parser, the blocklist validator and the command executors               *)
(* (agent.BashExecutor and the local environment).                         *)
(*                                                                         *)
(* Texts (Go strings) are sequences of atoms.  An atom is one character,   *)
(* written as a one-character string, or an indivisible literal of the     *)
(* program (a message template) that the code only stores and compares.    *)
(* The backquote character is written "BQ": SANY cannot lex a backquote    *)
(* inside a string.                                                        *)
(***************************************************************************)
EXTENDS Integers, Sequences, FiniteSets, TLC

VARIABLES
    impl,          \* "agent" (agent.BaseAgent) or "wise" (wise.baseAgent)
    maxSteps,      \* config.MaxSteps / cfg.maxSteps
    handler,       \* cfg.actionHandler of wise.baseAgent: "none" or a handler name
    executor,      \* the BashExecutor / local environment: timeout, validator
    messages,      \* a.messages
    step,          \* a.step
    lastResponse,  \* Run's local lastResponse
    pc,            \* position of Run / Step
    response,      \* Step's local response
    action,        \* Step's local action
    output,        \* the Output of the last Execute / handler call
    stepRet,       \* what the current Step returned: [resp, err], and at, the part of
                   \* Step that returned it
    runRet,        \* what Run returned: [resp, err], and reason, the reason Run logged
    ctxDone,       \* the caller's context is cancelled
    queries,       \* number of Query calls made in this Run
    execs,         \* the commands handed to Execute in this Run
    asked,         \* the calls of cfg.actionHandler, in order: the command, and what the
                   \* handler returned (output, handled, error)
    spawned,       \* the commands for which a bash process was started
    call,          \* the last Execute call: the behaviour p of its process, whether the
                   \* context was cancelled before it or during it, whether it spawned
    valRet,        \* the result of the last direct Validate call, and its command
    built,         \* how the executor was constructed: constructor, arguments, options
    trace,         \* per finished Step of this Run: the part that returned and Run's verdict
    supplied,      \* the caller's slice of pattern sources handed to NewBlocklistValidator
    validator,     \* a BlocklistValidator constructed on its own: its compiled patterns
    pieces,        \* the pieces a response text handed to ParseAction was written from
    made,          \* the call of wise.New: whether its model and its environment were
                   \* given (not nil), whether it returned an agent, and its error
    cli            \* the process of the run subcommand: its flags, its environment
                   \* variables and config.toml, what LoadConfig returned, what it printed
                   \* at the end and its exit code (-1 while it runs)

cfgVars == <<impl, maxSteps, handler, executor, built>>
execVars == <<output, call, execs, spawned, asked>>
unitVars == <<supplied, validator, pieces, made, cli>>
vars == <<cfgVars, execVars, unitVars, messages, step, lastResponse, pc, response, action,
          stepRet, runRet, ctxDone, queries, valRet, trace>>

----------------------------------------------------------------------------
(* Bounds of the model *)

\* largest configured maximum step count explored
MaxSteps == 2

----------------------------------------------------------------------------
(* strings: TrimSpace, SplitN, Sprintf("%d") *)

\* the regexp class \s: [\t\n\f\r ]
RegexSpace == {" ", "\t", "\n", "\r", "\f"}

\* the ASCII white space of strings.TrimSpace (unicode.IsSpace); "VT" is the vertical tab
Space == RegexSpace \cup {"VT"}

RECURSIVE TrimLeft(_)
TrimLeft(s) == IF s # <<>> /\ Head(s) \in Space THEN TrimLeft(Tail(s)) ELSE s

RECURSIVE TrimRight(_)
TrimRight(s) ==
    IF s # <<>> /\ s[Len(s)] \in Space THEN TrimRight(SubSeq(s, 1, Len(s) - 1)) ELSE s

\* strings.TrimSpace
TrimSpace(s) == TrimRight(TrimLeft(s))

\* strings.Index(s, "\n") + 1, 0 when there is none
IndexNL(s) ==
    LET hits == {i \in 1..Len(s) : s[i] = "\n"}
    IN  IF hits = {} THEN 0 ELSE CHOOSE i \in hits : \A j \in hits : i <= j

\* strings.SplitN(s, "\n", 2)
SplitN2(s) ==
    LET i == IndexNL(s)
    IN  IF i = 0 THEN <<s>> ELSE <<SubSeq(s, 1, i - 1), SubSeq(s, i + 1, Len(s))>>

Digits == <<"0", "1", "2", "3", "4", "5", "6", "7", "8", "9">>

RECURSIVE ItoaNat(_)
ItoaNat(n) == IF n < 10 THEN <<Digits[n + 1]>> ELSE ItoaNat(n \div 10) \o <<Digits[(n % 10) + 1]>>

\* the %d verb of fmt
Itoa(n) == IF n < 0 THEN <<"-">> \o ItoaNat(0 - n) ELSE ItoaNat(n)

\* time.Duration.String() of a whole number of seconds below one minute
DurationString(d) == Itoa(d) \o <<"s">>

----------------------------------------------------------------------------
(* errors: an error value is the chain errors.Unwrap walks, outermost first; *)
(* nil is the empty chain                                                    *)

Nil == <<>>

ErrLayer(t, k, m) == [type |-> t, kind |-> k, msg |-> m]

\* &ProcessErr{Type: k, Message: m}
ProcessErr(k, m) == <<ErrLayer("ProcessErr", k, m)>>

\* &TerminatingErr{Reason: r, Output: o}
TerminatingErr(r, o) == <<ErrLayer("TerminatingErr", r, o)>>

\* &local.ExecutionError{Type: k, Message: m}
ExecutionError(k, m) == <<ErrLayer("ExecutionError", k, m)>>

\* errors.New(m), and any other error that wraps nothing
PlainErr(m) == <<ErrLayer("errorString", "", m)>>

\* fmt.Errorf(prefix + "%w", err)
Wrap(prefix, err) == <<ErrLayer("wrapError", "", prefix)>> \o err

\* errors.As(err, &target) for a target of type t: succeeds iff some error of the chain has type t
ErrorsAs(err, t) == \E i \in 1..Len(err) : err[i].type = t

\* the value errors.As stores in the target: the first error of the chain of type t
AsTarget(err, t) ==
    err[CHOOSE i \in 1..Len(err) : err[i].type = t /\ \A j \in 1..(i - 1) : err[j].type # t]

----------------------------------------------------------------------------
(* Action and Output *)

ActionTypeBash == "bash"

\* Action{}
NoAction == [Type |-> "", Command |-> <<>>]

\* Output{}
EmptyOutput == [Stdout |-> <<>>, Stderr |-> <<>>, ExitCode |-> 0, TimedOut |-> FALSE]

\* agent.Output.String()
AgentOutputString(o) ==
    o.Stdout
        \o (IF o.Stderr # <<>> THEN <<"\nstderr: ">> \o o.Stderr ELSE <<>>)
        \o (IF o.ExitCode # 0 THEN <<"\nexit code: ">> \o Itoa(o.ExitCode) ELSE <<>>)

\* environments.Output.String()
EnvOutputString(o) == IF o.Stderr # <<>> THEN o.Stdout \o <<"\n">> \o o.Stderr ELSE o.Stdout

----------------------------------------------------------------------------
(* Action parser: commandRegex is (?s)BQBQBQbash\s*\n(.*?)\nBQBQBQ *)

Fence == <<"BQ", "BQ", "BQ">>
OpenTag == Fence \o <<"b", "a", "s", "h">>
CloseTag == <<"\n">> \o Fence

\* the literal lit occurs in s at position p
HasAt(s, p, lit) == p + Len(lit) - 1 <= Len(s) /\ SubSeq(s, p, p + Len(lit) - 1) = lit

\* length of the run of white space of s that starts at position p
RECURSIVE SpaceRun(_, _)
SpaceRun(s, p) == IF p <= Len(s) /\ s[p] \in RegexSpace THEN 1 + SpaceRun(s, p + 1) ELSE 0

\* The leftmost-first match of commandRegex that starts at position p of s:
\* the opening tag, then \s* (greedy: the longest run first) and a newline,
\* then the capture (lazy: the shortest first, any character) up to the first
\* newline-and-fence.  [ok, cap, next]: next is the position after the match.
MatchCommandAt(s, p) ==
    LET q == p + Len(OpenTag)
        closes(c) == {e \in c..Len(s) : HasAt(s, e, CloseTag)}
        ws == {w \in 0..SpaceRun(s, q) :
                  /\ q + w <= Len(s)
                  /\ s[q + w] = "\n"
                  /\ closes(q + w + 1) # {}}
    IN  IF ~HasAt(s, p, OpenTag) \/ ws = {}
        THEN [ok |-> FALSE, cap |-> <<>>, next |-> p]
        ELSE LET w == CHOOSE x \in ws : \A y \in ws : y <= x
                 c == q + w + 1
                 e == CHOOSE x \in closes(c) : \A y \in closes(c) : x <= y
             IN  [ok |-> TRUE, cap |-> SubSeq(s, c, e - 1), next |-> e + Len(CloseTag)]

\* commandRegex.FindAllStringSubmatch(s, -1), the first submatch of each match:
\* the matches are found left to right and do not overlap
RECURSIVE FindAllFrom(_, _)
FindAllFrom(s, from) ==
    LET starts == {p \in from..Len(s) : MatchCommandAt(s, p).ok}
    IN  IF starts = {} THEN <<>>
        ELSE LET p == CHOOSE x \in starts : \A y \in starts : x <= y
                 m == MatchCommandAt(s, p)
             IN  <<m.cap>> \o FindAllFrom(s, m.next)

FindAllStringSubmatch(s) == FindAllFrom(s, 1)

\* the text "BQBQBQbashBQBQBQ block." that ends two of the parser's messages
InBashBlock == Fence \o <<"bash">> \o Fence \o <<" block.">>

MsgNoCommand ==
    <<"No bash command found. If the task is complete, respond with TASK_COMPLETE. Otherwise, provide exactly one command in ">>
        \o InBashBlock
MsgFound(n) ==
    <<"Found ">> \o Itoa(n)
        \o <<" commands, expected exactly one. Please provide a single command in ">>
        \o InBashBlock
MsgEmptyCommand == <<"Empty command in bash block. Please provide a valid command.">>

\* faulty variant: the captured command is not trimmed
ParseActionNoTrim(resp) ==
    LET matches == FindAllStringSubmatch(resp)
    IN  IF Len(matches) = 0
        THEN [action |-> NoAction, err |-> ProcessErr("format", MsgNoCommand)]
        ELSE IF Len(matches) > 1
        THEN [action |-> NoAction, err |-> ProcessErr("format", MsgFound(Len(matches)))]
        ELSE IF TrimSpace(matches[1]) = <<>>
        THEN [action |-> NoAction, err |-> ProcessErr("format", MsgEmptyCommand)]
        ELSE [action |-> [Type |-> ActionTypeBash, Command |-> matches[1]], err |-> Nil]

\* faulty variant: the check for an empty command is missing
ParseActionNoEmptyCheck(resp) ==
    LET matches == FindAllStringSubmatch(resp)
    IN  IF Len(matches) = 0
        THEN [action |-> NoAction, err |-> ProcessErr("format", MsgNoCommand)]
        ELSE IF Len(matches) > 1
        THEN [action |-> NoAction, err |-> ProcessErr("format", MsgFound(Len(matches)))]
        ELSE [action |-> [Type |-> ActionTypeBash, Command |-> TrimSpace(matches[1])],
              err |-> Nil]

\* BashParser.ParseAction: [action, err]
ParseAction(resp) ==
    LET matches == FindAllStringSubmatch(resp)
    IN  IF Len(matches) = 0
        THEN [action |-> NoAction, err |-> ProcessErr("format", MsgNoCommand)]
        ELSE IF Len(matches) > 1
        THEN [action |-> NoAction, err |-> ProcessErr("format", MsgFound(Len(matches)))]
        ELSE LET command == TrimSpace(matches[1])
             IN  IF command = <<>>
                 THEN [action |-> NoAction, err |-> ProcessErr("format", MsgEmptyCommand)]
                 ELSE [action |-> [Type |-> ActionTypeBash, Command |-> command], err |-> Nil]

\* ParseAction of the parser wise.New installs (wise.NewBashParser)
WiseParseAction(resp) == ParseAction(resp)

----------------------------------------------------------------------------
(* Blocklist validator.  A compiled pattern is a sequence of alternatives, *)
(* each a sequence of items: a character class (set, or its complement     *)
(* when neg) with a quantifier "1", "?" or "*".                            *)

\* DefaultBlockedPatterns: the pattern sources, in order
DefaultBlockedPatterns ==
    << "rm\\s+-[rf]*\\s+/", "rm\\s+-[rf]*\\s+\\*", "rm\\s+-[rf]*\\s+~", ">\\s*/dev/sd",
       "mkfs", "dd\\s+if=.*/dev/", "dd\\s+of=.*/dev/", "chmod\\s+777\\s+/",
       "chown\\s+-R\\s+.*\\s+/", "curl.*\\|\\s*(ba)?sh", "wget.*\\|\\s*(ba)?sh",
       ":\\(\\)\\{\\s*:\\|:&\\s*\\};:", "/dev/null\\s*>\\s*/etc/", ">\\s*/etc/passwd",
       ">\\s*/etc/shadow", "shutdown", "reboot", "init\\s+0", "halt", "poweroff" >>

\* regexp.Compile of the pattern sources the model uses: the default patterns
\* and the custom patterns "ls" and "l"
Compile(src) ==
    LET
        One(c) == [set |-> {c}, neg |-> FALSE, q |-> "1"]
        Lit(cs) == [i \in 1..Len(cs) |-> One(cs[i])]
        \* \s* and \s+
        WsStar == <<[set |-> RegexSpace, neg |-> FALSE, q |-> "*"]>>
        WsPlus == <<[set |-> RegexSpace, neg |-> FALSE, q |-> "1"]>> \o WsStar
        \* .* (without the s flag the dot matches no newline)
        DotStar == <<[set |-> {"\n"}, neg |-> TRUE, q |-> "*"]>>
        \* [rf]*
        RfStar == <<[set |-> {"r", "f"}, neg |-> FALSE, q |-> "*"]>>

        RmFlags == Lit(<<"r", "m">>) \o WsPlus \o Lit(<<"-">>) \o RfStar \o WsPlus
        EtcDir == <<"/", "e", "t", "c", "/">>
        DevDir == <<"/", "d", "e", "v", "/">>
        PipeTo == DotStar \o Lit(<<"|">>) \o WsStar
        Sh == <<"s", "h">>
        Bash == <<"b", "a">> \o Sh
    IN
    CASE src = "rm\\s+-[rf]*\\s+/" -> <<RmFlags \o Lit(<<"/">>)>>
      [] src = "rm\\s+-[rf]*\\s+\\*" -> <<RmFlags \o Lit(<<"*">>)>>
      [] src = "rm\\s+-[rf]*\\s+~" -> <<RmFlags \o Lit(<<"~">>)>>
      [] src = ">\\s*/dev/sd" -> <<Lit(<<">">>) \o WsStar \o Lit(DevDir \o <<"s", "d">>)>>
      [] src = "mkfs" -> <<Lit(<<"m", "k", "f", "s">>)>>
      [] src = "dd\\s+if=.*/dev/" ->
            <<Lit(<<"d", "d">>) \o WsPlus \o Lit(<<"i", "f", "=">>) \o DotStar \o Lit(DevDir)>>
      [] src = "dd\\s+of=.*/dev/" ->
            <<Lit(<<"d", "d">>) \o WsPlus \o Lit(<<"o", "f", "=">>) \o DotStar \o Lit(DevDir)>>
      [] src = "chmod\\s+777\\s+/" ->
            <<Lit(<<"c", "h", "m", "o", "d">>) \o WsPlus \o Lit(<<"7", "7", "7">>) \o WsPlus
                \o Lit(<<"/">>)>>
      [] src = "chown\\s+-R\\s+.*\\s+/" ->
            <<Lit(<<"c", "h", "o", "w", "n">>) \o WsPlus \o Lit(<<"-", "R">>) \o WsPlus
                \o DotStar \o WsPlus \o Lit(<<"/">>)>>
      [] src = "curl.*\\|\\s*(ba)?sh" ->
            <<Lit(<<"c", "u", "r", "l">>) \o PipeTo \o Lit(Bash),
              Lit(<<"c", "u", "r", "l">>) \o PipeTo \o Lit(Sh)>>
      [] src = "wget.*\\|\\s*(ba)?sh" ->
            <<Lit(<<"w", "g", "e", "t">>) \o PipeTo \o Lit(Bash),
              Lit(<<"w", "g", "e", "t">>) \o PipeTo \o Lit(Sh)>>
      [] src = ":\\(\\)\\{\\s*:\\|:&\\s*\\};:" ->
            <<Lit(<<":", "(", ")", "{">>) \o WsStar \o Lit(<<":", "|", ":", "&">>) \o WsStar
                \o Lit(<<"}", ";", ":">>)>>
      [] src = "/dev/null\\s*>\\s*/etc/" ->
            <<Lit(DevDir \o <<"n", "u", "l", "l">>) \o WsStar \o Lit(<<">">>) \o WsStar
                \o Lit(EtcDir)>>
      [] src = ">\\s*/etc/passwd" ->
            <<Lit(<<">">>) \o WsStar \o Lit(EtcDir \o <<"p", "a", "s", "s", "w", "d">>)>>
      [] src = ">\\s*/etc/shadow" ->
            <<Lit(<<">">>) \o WsStar \o Lit(EtcDir \o <<"s", "h", "a", "d", "o", "w">>)>>
      [] src = "shutdown" -> <<Lit(<<"s", "h", "u", "t", "d", "o", "w", "n">>)>>
      [] src = "reboot" -> <<Lit(<<"r", "e", "b", "o", "o", "t">>)>>
      [] src = "init\\s+0" -> <<Lit(<<"i", "n", "i", "t">>) \o WsPlus \o Lit(<<"0">>)>>
      [] src = "halt" -> <<Lit(<<"h", "a", "l", "t">>)>>
      [] src = "poweroff" -> <<Lit(<<"p", "o", "w", "e", "r", "o", "f", "f">>)>>
      [] src = "ls" -> <<Lit(<<"l", "s">>)>>
      [] src = "l" -> <<Lit(<<"l">>)>>

\* the item it matches the character c
ItemHas(it, c) == IF it.neg THEN c \notin it.set ELSE c \in it.set

\* the items from the k-th on match a substring of s that starts at position p
RECURSIVE MatchHere(_, _, _, _)
MatchHere(items, k, s, p) ==
    IF k > Len(items) THEN TRUE
    ELSE LET it == items[k]
             eat == p <= Len(s) /\ ItemHas(it, s[p])
         IN  CASE it.q = "1" -> eat /\ MatchHere(items, k + 1, s, p + 1)
               [] it.q = "?" ->
                    MatchHere(items, k + 1, s, p) \/ (eat /\ MatchHere(items, k + 1, s, p + 1))
               [] it.q = "*" ->
                    MatchHere(items, k + 1, s, p) \/ (eat /\ MatchHere(items, k, s, p + 1))

\* re.MatchString(s): the pattern matches somewhere in s
MatchString(re, s) ==
    \E a \in 1..Len(re) : \E p \in 1..(Len(s) + 1) : MatchHere(re[a], 1, s, p)

\* the message of the blocked error for the pattern with source src (%q quotes it)
BlockedMsg(src) ==
    <<"Command blocked for safety: matches pattern ", "\"", src, "\"",
      ". Please use a safer alternative.">>

\* the loop of BlocklistValidator.Validate from the i-th pattern on:
\* [err, evaluated], evaluated the number of patterns matched against the command
RECURSIVE ValidateFrom(_, _, _)
ValidateFrom(patterns, i, command) ==
    IF i > Len(patterns) THEN [err |-> Nil, evaluated |-> Len(patterns)]
    ELSE IF MatchString(Compile(patterns[i]), command)
         THEN [err |-> ProcessErr("execution", BlockedMsg(patterns[i])), evaluated |-> i]
         ELSE ValidateFrom(patterns, i + 1, command)

\* faulty variant: the loop starts at the second pattern
ValidateSkipFirst(patterns, command) == ValidateFrom(patterns, 2, command)

\* faulty variant: the loop does not return at the first match: the last match is reported
RECURSIVE LastMatchFrom(_, _, _, _)
LastMatchFrom(patterns, i, command, found) ==
    IF i > Len(patterns) THEN [err |-> found, evaluated |-> Len(patterns)]
    ELSE LastMatchFrom(patterns, i + 1, command,
                       IF MatchString(Compile(patterns[i]), command)
                       THEN ProcessErr("execution", BlockedMsg(patterns[i])) ELSE found)
ValidateLastMatch(patterns, command) == LastMatchFrom(patterns, 1, command, Nil)

\* BlocklistValidator.Validate
Validate(patterns, command) == ValidateFrom(patterns, 1, command)

\* faulty variant: the caller's patterns are added to the default ones
NewBlocklistValidatorWithDefaults(patterns) ==
    [kind |-> "blocklist", patterns |-> patterns \o DefaultBlockedPatterns]

\* NewBlocklistValidator(patterns); every source of the model compiles
NewBlocklistValidator(patterns) == [kind |-> "blocklist", patterns |-> patterns]

\* NewDefaultBlocklistValidator()
NewDefaultBlocklistValidator == NewBlocklistValidator(DefaultBlockedPatterns)

\* a nil CommandValidator
NilValidator == [kind |-> "nil", patterns |-> <<>>]

\* local.NewDefaultValidator(): the built-in pattern set of the local environment
NewDefaultValidator == [kind |-> "local", patterns |-> DefaultBlockedPatterns]

\* Validate of the local environment's validator: the blocked error is an ExecutionError
LocalValidate(patterns, command) ==
    LET r == Validate(patterns, command)
    IN  IF r.err = Nil THEN r
        ELSE [err |-> ExecutionError("blocked", r.err[1].msg), evaluated |-> r.evaluated]

\* validator.Validate(command) through the CommandValidator interface
ValidatorValidate(v, command) ==
    IF v.kind = "local" THEN LocalValidate(v.patterns, command) ELSE Validate(v.patterns, command)

----------------------------------------------------------------------------
(* Executors.  Durations are whole seconds.  An executor is                *)
(* [kind, timeout, workingDir, validator], kind "bash" for a BashExecutor  *)
(* and "local" for the local environment.                                  *)

\* 30 * time.Second
DefaultTimeout == 30

\* the BashExecutorOption values: [name, d, dir, v]
WithTimeout(d) == [name |-> "WithTimeout", d |-> d, dir |-> "", v |-> NilValidator]
WithWorkingDir(dir) == [name |-> "WithWorkingDir", d |-> 0, dir |-> dir, v |-> NilValidator]
WithValidator(v) == [name |-> "WithValidator", d |-> 0, dir |-> "", v |-> v]
WithoutValidation == [name |-> "WithoutValidation", d |-> 0, dir |-> "", v |-> NilValidator]

\* opt(e)
ApplyOption(e, opt) ==
    CASE opt.name = "WithTimeout" -> [e EXCEPT !.timeout = opt.d]
      [] opt.name = "WithWorkingDir" -> [e EXCEPT !.workingDir = opt.dir]
      [] opt.name = "WithValidator" -> [e EXCEPT !.validator = opt.v]
      [] opt.name = "WithoutValidation" -> [e EXCEPT !.validator = NilValidator]

RECURSIVE ApplyOptions(_, _)
ApplyOptions(e, opts) ==
    IF opts = <<>> THEN e ELSE ApplyOptions(ApplyOption(e, Head(opts)), Tail(opts))

\* NewBashExecutor(timeout, workingDir, opts...)
NewBashExecutor(timeout, workingDir, opts) ==
    ApplyOptions([kind |-> "bash",
                  timeout |-> IF timeout <= 0 THEN DefaultTimeout ELSE timeout,
                  workingDir |-> workingDir,
                  validator |-> NewDefaultBlocklistValidator], opts)

\* local.NewConfig()
LocalNewConfig == [timeout |-> DefaultTimeout, workingDir |-> "", validator |-> NewDefaultValidator]

\* local.Config{}: the zero value
LocalZeroConfig == [timeout |-> 0, workingDir |-> "", validator |-> NilValidator]

\* Config.WithTimeout, WithWorkingDir, WithValidator, WithoutValidation of the local environment
LocalWith(c, opt) == ApplyOption(c, opt)

\* local.New(cfg)
LocalNew(cfg) ==
    [kind |-> "local",
     timeout |-> IF cfg.timeout = 0 THEN DefaultTimeout ELSE cfg.timeout,
     workingDir |-> cfg.workingDir,
     validator |-> cfg.validator]

\* cmd.Run() under timeoutCtx = context.WithTimeout(ctx, timeout), for a command whose
\* process behaves as p = [stdout, stderr, exit, dur, starts, race]:
\*   starts  bash can be started (it exists, the working directory exists);
\*   dur     the time the process takes to exit by itself, with status exit;
\*   race    the deadline passes between the exit of the process and Execute's look
\*           at timeoutCtx.Err() (possible only when the process ends at the deadline).
\* before: ctx is cancelled when Execute is called; during: ctx is cancelled while the
\* process runs.  [stdout, stderr, run, code, text, ctxErr, spawn]: run is the kind of
\* error cmd.Run returned ("nil", "exit" for an *exec.ExitError, "other"), code its
\* ExitCode(), text its Error(), ctxErr is timeoutCtx.Err() after the run.
CmdRun(timeout, before, during, p) ==
    IF before
    THEN [stdout |-> <<>>, stderr |-> <<>>, run |-> "other", code |-> 0,
          text |-> <<"context canceled">>, ctxErr |-> "Canceled", spawn |-> FALSE]
    ELSE IF timeout <= 0
    THEN [stdout |-> <<>>, stderr |-> <<>>, run |-> "other", code |-> 0,
          text |-> <<"context deadline exceeded">>, ctxErr |-> "DeadlineExceeded",
          spawn |-> FALSE]
    ELSE IF ~p.starts
    THEN [stdout |-> <<>>, stderr |-> <<>>, run |-> "other", code |-> 0,
          text |-> <<"exec: start failed">>, ctxErr |-> "nil", spawn |-> FALSE]
    ELSE IF during
    THEN [stdout |-> p.stdout, stderr |-> p.stderr, run |-> "exit", code |-> -1,
          text |-> <<"signal: killed">>, ctxErr |-> "Canceled", spawn |-> TRUE]
    ELSE IF p.dur > timeout
    THEN [stdout |-> p.stdout, stderr |-> p.stderr, run |-> "exit", code |-> -1,
          text |-> <<"signal: killed">>, ctxErr |-> "DeadlineExceeded", spawn |-> TRUE]
    ELSE [stdout |-> p.stdout, stderr |-> p.stderr,
          run |-> IF p.exit = 0 THEN "nil" ELSE "exit", code |-> p.exit,
          text |-> IF p.exit = 0 THEN <<>> ELSE <<"exit status ">> \o Itoa(p.exit),
          ctxErr |-> IF p.race /\ p.dur = timeout THEN "DeadlineExceeded" ELSE "nil",
          spawn |-> TRUE]

\* fmt.Errorf("unsupported action type: %s", action.Type)
UnsupportedErr(a) == PlainErr(<<"unsupported action type: ", a.Type>>)

\* the messages of the timeout and execution errors, given the text of output.String()
TimeoutMsg(timeout, outText) ==
    <<"Command timed out after ">> \o DurationString(timeout) \o <<". Partial output:\n">>
        \o outText
FailedMsg(errText, outText) ==
    <<"Command failed: ">> \o errText \o <<"\nOutput:\n">> \o outText

\* faulty variant: the wrong sentinel: errors.Is(timeoutCtx.Err(), context.Canceled)
IsCanceled(ctxErr) == ctxErr = "Canceled"

\* errors.Is(timeoutCtx.Err(), context.DeadlineExceeded)
IsDeadlineExceeded(ctxErr) == ctxErr = "DeadlineExceeded"

\* BashExecutor.Execute(ctx, action): [out, err, validated, spawn]
BashExecute(e, before, during, a, p) ==
    IF a.Type # ActionTypeBash
    THEN [out |-> EmptyOutput, err |-> UnsupportedErr(a), validated |-> FALSE, spawn |-> FALSE]
    ELSE IF e.validator.kind # "nil" /\ ValidatorValidate(e.validator, a.Command).err # Nil
    THEN [out |-> EmptyOutput, err |-> ValidatorValidate(e.validator, a.Command).err,
          validated |-> TRUE, spawn |-> FALSE]
    ELSE LET r == CmdRun(e.timeout, before, during, p)
             out0 == [Stdout |-> r.stdout, Stderr |-> r.stderr, ExitCode |-> 0,
                      TimedOut |-> FALSE]
             outT == [out0 EXCEPT !.TimedOut = TRUE]
             outE == [out0 EXCEPT !.ExitCode = IF r.run = "exit" THEN r.code ELSE 0]
             res(o, err) == [out |-> o, err |-> err, validated |-> e.validator.kind # "nil",
                             spawn |-> r.spawn]
         IN  IF r.run = "nil" THEN res(out0, Nil)
             ELSE IF IsDeadlineExceeded(r.ctxErr)
             THEN res(outT, ProcessErr("timeout", TimeoutMsg(e.timeout, AgentOutputString(outT))))
             ELSE res(outE, ProcessErr("execution", FailedMsg(r.text, AgentOutputString(outE))))

\* environment.Execute(ctx, action) of the local environment: [out, err, validated, spawn]
LocalExecute(e, before, during, a, p) ==
    IF a.Type # ActionTypeBash
    THEN [out |-> EmptyOutput, err |-> UnsupportedErr(a), validated |-> FALSE, spawn |-> FALSE]
    ELSE IF e.validator.kind # "nil" /\ ValidatorValidate(e.validator, a.Command).err # Nil
    THEN [out |-> EmptyOutput, err |-> ValidatorValidate(e.validator, a.Command).err,
          validated |-> TRUE, spawn |-> FALSE]
    ELSE LET r == CmdRun(e.timeout, before, during, p)
             out0 == [Stdout |-> r.stdout, Stderr |-> r.stderr, ExitCode |-> 0,
                      TimedOut |-> FALSE]
             outT == [out0 EXCEPT !.TimedOut = TRUE]
             outE == [out0 EXCEPT !.ExitCode = IF r.run = "exit" THEN r.code ELSE 0]
             res(o, err) == [out |-> o, err |-> err, validated |-> e.validator.kind # "nil",
                             spawn |-> r.spawn]
         IN  IF r.run = "nil" THEN res(out0, Nil)
             ELSE IF IsDeadlineExceeded(r.ctxErr)
             THEN res(outT, ExecutionError("timeout", TimeoutMsg(e.timeout, EnvOutputString(outT))))
             ELSE res(outE, ExecutionError("execution", FailedMsg(r.text, EnvOutputString(outE))))

\* faulty variant: the action is executed as a bash action whatever its kind
ExecuteAnyKind(e, before, during, a, p) ==
    IF e.kind = "local"
    THEN LocalExecute(e, before, during, [a EXCEPT !.Type = ActionTypeBash], p)
    ELSE BashExecute(e, before, during, [a EXCEPT !.Type = ActionTypeBash], p)

\* Execute through the Executor / Environment interface
Execute(e, before, during, a, p) ==
    IF e.kind = "local" THEN LocalExecute(e, before, during, a, p)
    ELSE BashExecute(e, before, during, a, p)

----------------------------------------------------------------------------
(* Step/loop controller: the helpers of BaseAgent and baseAgent *)

completionMarker == <<"T", "A", "S", "K", "_", "C", "O", "M", "P", "L", "E", "T", "E">>

\* faulty variant: the whole stdout is compared with the marker, not its first line
isTaskCompleteExact(o) == TrimSpace(o.Stdout) = completionMarker

\* isTaskComplete(output)
isTaskComplete(o) ==
    LET firstLine == SplitN2(TrimSpace(o.Stdout))[1]
    IN  TrimSpace(firstLine) = completionMarker

\* extractFinalOutput(output)
extractFinalOutput(o) ==
    LET parts == SplitN2(o.Stdout)
    IN  IF Len(parts) > 1 THEN TrimSpace(parts[2]) ELSE <<>>

\* const maxLen of formatObservation
maxLen == 10000

TruncationNotice == <<"\n\n[... output truncated ...]\n\n">>

\* faulty variant: what the command wrote to stderr is reported after its stdout
formatObservationWithStderr(o) ==
    LET result == o.Stdout \o o.Stderr
        n == Len(result)
        truncated ==
            IF n > maxLen
            THEN SubSeq(result, 1, maxLen \div 2) \o TruncationNotice
                 \o SubSeq(result, n - (maxLen \div 2) + 1, n)
            ELSE result
    IN  IF TrimSpace(result) = <<>> /\ o.ExitCode = 0 THEN <<"(no output)">>
        ELSE IF o.ExitCode # 0
        THEN <<"[exit code: ">> \o Itoa(o.ExitCode) \o <<"]\n">> \o truncated
        ELSE truncated

\* faulty variant: only a stdout of no characters at all counts as no output
formatObservationExactEmpty(o) ==
    IF o.Stdout = <<>> /\ o.ExitCode = 0 THEN <<"(no output)">>
    ELSE IF o.ExitCode # 0
    THEN <<"[exit code: ">> \o Itoa(o.ExitCode) \o <<"]\n">> \o o.Stdout
    ELSE o.Stdout

\* faulty variant: the tail slice starts one character early
formatObservationLongTail(o) ==
    IF TrimSpace(o.Stdout) = <<>> /\ o.ExitCode = 0 THEN <<"(no output)">>
    ELSE LET result == o.Stdout
             n == Len(result)
             truncated ==
                 IF n > maxLen
                 THEN SubSeq(result, 1, maxLen \div 2) \o TruncationNotice
                          \o SubSeq(result, n - (maxLen \div 2), n)
                 ELSE result
         IN  IF o.ExitCode # 0
             THEN <<"[exit code: ">> \o Itoa(o.ExitCode) \o <<"]\n">> \o truncated
             ELSE truncated

\* formatObservation(output)
formatObservation(o) ==
    IF TrimSpace(o.Stdout) = <<>> /\ o.ExitCode = 0 THEN <<"(no output)">>
    ELSE LET result == o.Stdout
             n == Len(result)
             truncated ==
                 IF n > maxLen
                 THEN SubSeq(result, 1, maxLen \div 2) \o TruncationNotice
                          \o SubSeq(result, n - (maxLen \div 2) + 1, n)
                 ELSE result
         IN  IF o.ExitCode # 0
             THEN <<"[exit code: ">> \o Itoa(o.ExitCode) \o <<"]\n">> \o truncated
             ELSE truncated

\* Message{Role: role, Content: content}
Message(role, content) == [Role |-> role, Content |-> content]

\* faulty variant: the message is put in front of the history
addMessageFront(msgs, role, content) == <<Message(role, content)>> \o msgs

\* addMessage(role, content)
addMessage(msgs, role, content) == Append(msgs, Message(role, content))

\* the return values of Step: (resp, err), returned by the part at of Step
Ret(resp, err, at) == [resp |-> resp, err |-> err, at |-> at]
NoRet == Ret(<<>>, Nil, "")

\* the return values of Run: (resp, err), and the reason Run logged
RunRet(resp, err, reason) == [resp |-> resp, err |-> err, reason |-> reason]

\* faulty variant: the loop runs once more: step <= MaxSteps
LoopCondInclusive(s, n) == s <= n

\* the condition of Run's loop
LoopCond(s, n) == s < n

\* faulty variant: baseAgent.Run without its test for the environment's ExecutionError
ClassifyNoExecutionError(i, err) ==
    IF ErrorsAs(err, "TerminatingErr") THEN "terminal"
    ELSE IF ErrorsAs(err, "ProcessErr") THEN "recoverable"
    ELSE "fatal"

\* How Run classifies a non-nil error of Step: the chain of errors.As tests.
\* The ExecutionError test is the one baseAgent.Run adds.
Classify(i, err) ==
    IF ErrorsAs(err, "TerminatingErr") THEN "terminal"
    ELSE IF ErrorsAs(err, "ProcessErr") THEN "recoverable"
    ELSE IF i = "wise" /\ ErrorsAs(err, "ExecutionError") THEN "recoverable"
    ELSE "fatal"

\* the message text Run feeds back for a recoverable error
Feedback(err) ==
    IF ErrorsAs(err, "ProcessErr") THEN AsTarget(err, "ProcessErr").msg
    ELSE AsTarget(err, "ExecutionError").msg

----------------------------------------------------------------------------
(* The collaborators: what the model answers and how processes behave *)

SystemPrompt == <<"You are an autonomous agent that executes bash commands to complete tasks.">>
Task == <<"List the files">>

\* a response that holds the command in one bash block
Fenced(cmd) == OpenTag \o <<"\n">> \o cmd \o CloseTag

CmdLs == <<"l", "s">>
CmdRm == <<"r", "m", " ", "-", "r", "f", " ", "/">>

RespLs == <<"R", "u", "n", ":", "\n">> \o Fenced(CmdLs)
RespRm == Fenced(CmdRm)
RespNone == <<"d", "o", "n", "e">>
RespTwo == Fenced(CmdLs) \o <<"\n">> \o Fenced(CmdRm)

\* the response texts the model gives
Responses == {RespLs, RespRm, RespNone, RespTwo}

\* the errors the Model collaborator returns from Query: an error of its own, and
\* errors that are (or wrap) the loop's own signal types
QueryErrors ==
    { PlainErr(<<"model unavailable">>),
      ProcessErr("timeout", <<"model timed out">>),
      Wrap(<<"failed to generate content: ">>, TerminatingErr("user_abort", <<>>)) }

Proc(out, errOut, exit, dur) ==
    [stdout |-> out, stderr |-> errOut, exit |-> exit, dur |-> dur, starts |-> TRUE,
     race |-> FALSE]

Summary == <<"S", "u", "m", ":", " ", "X">>

ProcOk == Proc(<<"a", "\n">>, <<>>, 0, 1)
ProcDone == Proc(completionMarker \o <<"\n">> \o Summary \o <<"\n">>, <<>>, 0, 1)
ProcDoneBlankFirst == Proc(<<"\n">> \o completionMarker \o <<"\n">> \o Summary, <<>>, 0, 1)
ProcFail == Proc(<<>>, <<"e">>, 1, 1)
ProcFailDone == Proc(completionMarker \o <<"\n">>, <<>>, 1, 1)
ProcSlow == Proc(<<"a">>, <<>>, 0, DefaultTimeout + 1)
ProcNoStart == [Proc(<<>>, <<>>, 0, 1) EXCEPT !.starts = FALSE]
NoProc == Proc(<<>>, <<>>, 0, 0)

\* the process behaviours of the commands; the last two exit with 0 and write nothing,
\* or only white space, to stdout (and a warning to stderr)
Procs ==
    {ProcOk, ProcDone, ProcDoneBlankFirst, ProcFail, ProcFailDone, ProcSlow, ProcNoStart,
     [ProcDone EXCEPT !.dur = DefaultTimeout + 1],
     Proc(<<>>, <<>>, 0, 1), Proc(<<" ", "\n">>, <<"w">>, 0, 1)}

\* an Execute call: the process behaviour and the cancellation of the caller's context
\* (spawn: a process was started)
Call(p, before, during, spawn) ==
    [p |-> p, before |-> before, during |-> during, spawn |-> spawn]
NoCall == Call(NoProc, FALSE, FALSE, FALSE)

----------------------------------------------------------------------------
(* Construction of the executor *)

\* number of options a construction chains
MaxOpts == 2
\* number of patterns of a caller-supplied pattern list
MaxPatterns == 2

\* the pattern sources a caller supplies
CustomSources == {"l", "ls"}

\* the caller-supplied pattern lists
PatternLists ==
    UNION {[1..n -> CustomSources] : n \in 1..MaxPatterns}

\* the options a construction chains, for a caller-supplied validator v
OptionPool(v) == {WithTimeout(2), WithoutValidation, WithValidator(v)}

OptionSeqs(v) == UNION {[1..n -> OptionPool(v)] : n \in 0..MaxOpts}

\* a construction: NewBashExecutor(timeout, "", opts...) when ctor is "NewBashExecutor";
\* local.New(base.With...(opts)) when ctor is "local.New", base being local.NewConfig()
\* or the zero Config
Build(ctor, base, timeout, opts) ==
    [ctor |-> ctor, base |-> base, timeout |-> timeout, opts |-> opts]

\* the validator a caller builds from its own patterns, for the constructor ctor
CustomValidator(ctor, patterns) ==
    IF ctor = "local.New" THEN [kind |-> "local", patterns |-> patterns]
    ELSE NewBlocklistValidator(patterns)

Builds ==
    UNION {
        {Build("NewBashExecutor", "", t, opts) :
            t \in {0, 2}, opts \in OptionSeqs(CustomValidator("NewBashExecutor", pl))}
        \cup
        {Build("local.New", b, 0, opts) :
            b \in {"NewConfig", "zero"}, opts \in OptionSeqs(CustomValidator("local.New", pl))}
        : pl \in PatternLists }

\* the executor a construction yields
Construct(b) ==
    IF b.ctor = "NewBashExecutor" THEN NewBashExecutor(b.timeout, "", b.opts)
    ELSE LocalNew(ApplyOptions(IF b.base = "NewConfig" THEN LocalNewConfig ELSE LocalZeroConfig,
                               b.opts))

----------------------------------------------------------------------------
(* The state machine of Run and Step *)

\* the constructions of the agents under test: agent.NewWithComponents with a
\* BashExecutor, and wise.New with a local environment
RunBuilds(i) ==
    IF i = "agent"
    THEN {Build("NewBashExecutor", "", 0, <<>>),
          Build("NewBashExecutor", "", 0, <<WithoutValidation>>)}
    ELSE {Build("local.New", "NewConfig", 0, <<>>), Build("local.New", "zero", 0, <<>>)}

\* the state of an agent on which Run was not called
Idle ==
    /\ messages = <<>>
    /\ step = 0
    /\ lastResponse = <<>>
    /\ response = <<>>
    /\ action = NoAction
    /\ output = EmptyOutput
    /\ stepRet = NoRet
    /\ runRet = RunRet(<<>>, Nil, "")
    /\ ctxDone = FALSE
    /\ queries = 0
    /\ execs = <<>>
    /\ spawned = <<>>
    /\ asked = <<>>
    /\ call = NoCall
    /\ valRet = [command |-> <<>>, err |-> Nil, evaluated |-> 0]
    /\ trace = <<>>

\* the state of a run subcommand with the flags q, v and j that has not ended; none
\* of MODEL, MAX_STEPS, COMMAND_TIMEOUT is set, config.toml sets none of model,
\* max_steps, command_timeout, and LoadConfig was not called
Running(q, v, j) ==
    [quiet |-> q, verbose |-> v, json |-> j, exit |-> -1, stdout |-> <<>>, stderr |-> <<>>,
     result |-> <<>>,
     env |-> [MODEL |-> [set |-> FALSE, val |-> ""],
              MAX_STEPS |-> [set |-> FALSE, val |-> 0],
              COMMAND_TIMEOUT |-> [set |-> FALSE, val |-> 0]],
     toml |-> [Model |-> "", MaxSteps |-> 0, CommandTimeout |-> ""],
     loaded |-> [cfg |-> [Model |-> "", MaxSteps |-> 0, CommandTimeout |-> 0], err |-> Nil]]

\* the agent was constructed with a model and an environment, and without an action
\* handler, by a program other than the run subcommand
AllGiven ==
    /\ handler = "none"
    /\ made = [model |-> TRUE, env |-> TRUE, agent |-> TRUE, err |-> Nil]
    /\ cli = Running(FALSE, FALSE, FALSE)

\* no validator was constructed on its own and no text was handed to the parser
IdleUnits ==
    /\ supplied = <<>>
    /\ validator = NilValidator
    /\ pieces = <<>>
    /\ AllGiven

Init ==
    /\ impl \in {"agent", "wise"}
    /\ maxSteps \in 1..MaxSteps
    /\ built \in RunBuilds(impl)
    /\ executor = Construct(built)
    /\ pc = "idle"
    /\ Idle
    /\ IdleUnits

\* faulty variant: Run does not reset the history before it adds the two prompts
RunStartKeepsHistory ==
    /\ pc = "idle"
    /\ messages' = addMessage(addMessage(messages, "system", SystemPrompt), "user", Task)
    /\ step' = 0
    /\ lastResponse' = <<>>
    /\ queries' = 0
    /\ trace' = <<>>
    /\ pc' = "loop"
    /\ UNCHANGED <<cfgVars, unitVars, execVars, response, action, stepRet, runRet, ctxDone,
                   valRet>>

\* Run, up to the loop: the conversation is initialised
RunStart ==
    /\ pc = "idle"
    /\ messages' = addMessage(addMessage(<<>>, "system", SystemPrompt), "user", Task)
    /\ step' = 0
    /\ lastResponse' = <<>>
    /\ queries' = 0
    /\ trace' = <<>>
    /\ pc' = "loop"
    /\ UNCHANGED <<cfgVars, unitVars, execVars, response, action, stepRet, runRet, ctxDone, valRet>>

\* the loop condition holds: Run calls Step
LoopEnter ==
    /\ pc = "loop"
    /\ LoopCond(step, maxSteps)
    /\ pc' = "step"
    /\ stepRet' = NoRet
    /\ UNCHANGED <<cfgVars, unitVars, execVars, messages, step, lastResponse, response, action,
                   runRet, ctxDone, queries, valRet, trace>>

\* the loop condition fails: the step limit is reached
LoopExit ==
    /\ pc = "loop"
    /\ ~LoopCond(step, maxSteps)
    /\ runRet' = RunRet(lastResponse, TerminatingErr("step_limit", <<>>), "step_limit")
    /\ pc' = "done"
    /\ UNCHANGED <<cfgVars, unitVars, execVars, messages, step, lastResponse, response, action,
                   stepRet, ctxDone, queries, valRet, trace>>

\* faulty variant: the cancellation is reported as a recoverable execution error
StepCancelledAsProcessErr ==
    /\ pc = "step"
    /\ ctxDone
    /\ stepRet' = Ret(<<>>, ProcessErr("execution", <<"context cancelled: context canceled">>),
                      "ctx")
    /\ pc' = "ret"
    /\ UNCHANGED <<cfgVars, unitVars, execVars, messages, step, lastResponse, response,
                   action, runRet, ctxDone, queries, valRet, trace>>

\* Step finds the context cancelled
StepCancelled ==
    /\ pc = "step"
    /\ ctxDone
    /\ stepRet' = Ret(<<>>, Wrap(<<"context cancelled: ">>, PlainErr(<<"context canceled">>)),
                      "ctx")
    /\ pc' = "ret"
    /\ UNCHANGED <<cfgVars, unitVars, execVars, messages, step, lastResponse, response, action,
                   runRet, ctxDone, queries, valRet, trace>>

\* Step queries the model, which answers with a response
QueryOk ==
    /\ pc = "step"
    /\ ~ctxDone
    /\ made.model
    /\ \E r \in Responses : response' = r
    /\ queries' = queries + 1
    /\ pc' = "parse"
    /\ UNCHANGED <<cfgVars, unitVars, execVars, messages, step, lastResponse, action, stepRet,
                   runRet, ctxDone, valRet, trace>>

\* faulty variant: Step queries the model again when the query fails
QueryFailRetries ==
    /\ pc = "step"
    /\ ~ctxDone
    /\ made.model
    /\ queries < MaxSteps + 2
    /\ queries' = queries + 1
    /\ UNCHANGED <<cfgVars, unitVars, execVars, messages, step, lastResponse, pc, response,
                   action, stepRet, runRet, ctxDone, valRet, trace>>

\* Step queries the model, which fails
QueryFail ==
    /\ pc = "step"
    /\ ~ctxDone
    /\ made.model
    /\ \E e \in QueryErrors : stepRet' = Ret(<<>>, Wrap(<<"query failed: ">>, e), "query")
    /\ queries' = queries + 1
    /\ pc' = "ret"
    /\ UNCHANGED <<cfgVars, unitVars, execVars, messages, step, lastResponse, response, action,
                   runRet, ctxDone, valRet, trace>>

\* faulty variant: Step appends the assistant message before it parses the response
ParseAppendFirst ==
    /\ pc = "parse"
    /\ messages' = addMessage(messages, "assistant", response)
    /\ LET r == IF impl = "wise" THEN WiseParseAction(response) ELSE ParseAction(response)
       IN  IF r.err # Nil
           THEN /\ stepRet' = Ret(<<>>, r.err, "parse")
                /\ pc' = "ret"
                /\ UNCHANGED action
           ELSE /\ action' = r.action
                /\ pc' = "execute"
                /\ UNCHANGED stepRet
    /\ UNCHANGED <<cfgVars, unitVars, execVars, step, lastResponse, response, runRet, ctxDone,
                   queries, valRet, trace>>

\* a.parser.ParseAction(response), for each parser and each response of the model
\* (evaluated once)
ParseTable ==
    [i \in {"agent", "wise"}, resp \in Responses |->
        IF i = "wise" THEN WiseParseAction(resp) ELSE ParseAction(resp)]

\* Step parses the response; on success it appends the assistant message
Parse ==
    /\ pc = "parse"
    /\ LET r == ParseTable[impl, response]
       IN  IF r.err # Nil
           THEN /\ stepRet' = Ret(<<>>, r.err, "parse")
                /\ pc' = "ret"
                /\ UNCHANGED <<messages, action>>
           ELSE /\ messages' = addMessage(messages, "assistant", response)
                /\ action' = r.action
                /\ pc' = "execute"
                /\ UNCHANGED stepRet
    /\ UNCHANGED <<cfgVars, unitVars, execVars, step, lastResponse, response, runRet, ctxDone,
                   queries, valRet, trace>>

\* faulty variant: Step goes on to the output whatever error Execute returned
ExecuteActionIgnoresError ==
    /\ \/ pc = "execute" /\ handler = "none"
       \/ pc = "default"
    /\ made.env
    /\ \E p \in Procs, during \in BOOLEAN :
          \E r \in {Execute(executor, ctxDone, during, action, p)} :
              /\ during => r.spawn
              /\ call' = Call(p, ctxDone, during, r.spawn)
              /\ output' = r.out
              /\ execs' = Append(execs, action.Command)
              /\ spawned' = IF r.spawn THEN Append(spawned, action.Command) ELSE spawned
              /\ ctxDone' = (ctxDone \/ during)
              /\ stepRet' = stepRet
              /\ pc' = "handle"
    /\ UNCHANGED <<cfgVars, unitVars, asked, messages, step, lastResponse, response, action,
                   runRet, queries, valRet, trace>>

\* Step executes the action; the caller may cancel the context while the process runs
ExecuteAction ==
    /\ \/ pc = "execute" /\ handler = "none"
       \/ pc = "default"
    /\ made.env
    /\ \E p \in Procs, during \in BOOLEAN :
          \E r \in {Execute(executor, ctxDone, during, action, p)} :
              /\ during => r.spawn
              /\ call' = Call(p, ctxDone, during, r.spawn)
              /\ output' = r.out
              /\ execs' = Append(execs, action.Command)
              /\ spawned' = IF r.spawn THEN Append(spawned, action.Command) ELSE spawned
              /\ ctxDone' = (ctxDone \/ during)
              /\ IF r.err # Nil
                 THEN stepRet' = Ret(<<>>, r.err, "execute") /\ pc' = "ret"
                 ELSE stepRet' = stepRet /\ pc' = "handle"
    /\ UNCHANGED <<cfgVars, unitVars, asked, messages, step, lastResponse, response, action,
                   runRet, queries, valRet, trace>>

\* the end of Step in implementation i, after an execution that returned out and no
\* error: the history Step leaves and what it returns. A completed task returns its
\* final output with the complete signal; otherwise the observation is appended,
\* and BaseAgent.Step returns the response while baseAgent.handleOutput returns ""
handleOutput(i, msgs, resp, out) ==
    IF isTaskComplete(out)
    THEN [messages |-> msgs,
          ret |-> Ret(extractFinalOutput(out),
                      TerminatingErr("complete", extractFinalOutput(out)), "output")]
    ELSE [messages |-> addMessage(msgs, "user", formatObservation(out)),
          ret |-> Ret(IF i = "wise" THEN <<>> ELSE resp, Nil, "output")]

\* Step handles the output of a successful execution
HandleOutput ==
    /\ pc = "handle"
    /\ messages' = handleOutput(impl, messages, response, output).messages
    /\ stepRet' = handleOutput(impl, messages, response, output).ret
    /\ pc' = "ret"
    /\ UNCHANGED <<cfgVars, unitVars, execVars, step, lastResponse, response, action, runRet,
                   ctxDone, queries, valRet, trace>>

\* the entry of trace for the Step that returned ret, given Run's verdict
Traced(ret, verdict) == [at |-> ret.at, verdict |-> verdict]

\* Step returned nil: Run keeps the response and goes to the next iteration
StepOk ==
    /\ pc = "ret"
    /\ stepRet.err = Nil
    /\ lastResponse' = stepRet.resp
    /\ step' = step + 1
    /\ trace' = Append(trace, Traced(stepRet, "ok"))
    /\ pc' = "loop"
    /\ UNCHANGED <<cfgVars, unitVars, execVars, messages, response, action, stepRet, runRet,
                   ctxDone, queries, valRet>>

\* Step returned a terminating signal: Run returns its output and nil
StepTerminal ==
    /\ pc = "ret"
    /\ stepRet.err # Nil
    /\ Classify(impl, stepRet.err) = "terminal"
    /\ runRet' = RunRet(AsTarget(stepRet.err, "TerminatingErr").msg, Nil,
                        AsTarget(stepRet.err, "TerminatingErr").kind)
    /\ trace' = Append(trace, Traced(stepRet, "terminal"))
    /\ pc' = "done"
    /\ UNCHANGED <<cfgVars, unitVars, execVars, messages, step, lastResponse, response, action,
                   stepRet, ctxDone, queries, valRet>>

\* faulty variant: a recoverable error makes the loop retry the same step
StepRecoverableRetries ==
    /\ pc = "ret"
    /\ stepRet.err # Nil
    /\ Classify(impl, stepRet.err) = "recoverable"
    /\ messages' = addMessage(messages, "user", Feedback(stepRet.err))
    /\ trace' = Append(trace, Traced(stepRet, "recoverable"))
    /\ pc' = "loop"
    /\ UNCHANGED <<cfgVars, unitVars, execVars, step, lastResponse, response, action,
                   stepRet, runRet, ctxDone, queries, valRet>>

\* Step returned a recoverable error: Run feeds its message back and continues
StepRecoverable ==
    /\ pc = "ret"
    /\ stepRet.err # Nil
    /\ Classify(impl, stepRet.err) = "recoverable"
    /\ messages' = addMessage(messages, "user", Feedback(stepRet.err))
    /\ step' = step + 1
    /\ trace' = Append(trace, Traced(stepRet, "recoverable"))
    /\ pc' = "loop"
    /\ UNCHANGED <<cfgVars, unitVars, execVars, lastResponse, response, action, stepRet, runRet,
                   ctxDone, queries, valRet>>

\* faulty variant: Run returns the last response together with the fatal error
StepFatalKeepsResponse ==
    /\ pc = "ret"
    /\ stepRet.err # Nil
    /\ Classify(impl, stepRet.err) = "fatal"
    /\ runRet' = RunRet(lastResponse, stepRet.err, "fatal")
    /\ trace' = Append(trace, Traced(stepRet, "fatal"))
    /\ pc' = "done"
    /\ UNCHANGED <<cfgVars, unitVars, execVars, messages, step, lastResponse, response,
                   action, stepRet, ctxDone, queries, valRet>>

\* Step returned any other error: Run returns it
StepFatal ==
    /\ pc = "ret"
    /\ stepRet.err # Nil
    /\ Classify(impl, stepRet.err) = "fatal"
    /\ runRet' = RunRet(<<>>, stepRet.err, "fatal")
    /\ trace' = Append(trace, Traced(stepRet, "fatal"))
    /\ pc' = "done"
    /\ UNCHANGED <<cfgVars, unitVars, execVars, messages, step, lastResponse, response, action,
                   stepRet, ctxDone, queries, valRet>>

\* the caller cancels the context between two steps or before the command is executed
Cancel ==
    /\ pc \in {"loop", "execute"}
    /\ ~ctxDone
    /\ ctxDone' = TRUE
    /\ UNCHANGED <<cfgVars, unitVars, execVars, messages, step, lastResponse, pc, response, action,
                   stepRet, runRet, queries, valRet, trace>>

Next ==
    \/ RunStart
    \/ LoopEnter
    \/ LoopExit
    \/ StepCancelled
    \/ QueryOk
    \/ QueryFail
    \/ Parse
    \/ ExecuteAction
    \/ HandleOutput
    \/ StepOk
    \/ StepTerminal
    \/ StepRecoverable
    \/ StepFatal
    \/ Cancel

Spec == Init /\ [][Next]_vars

----------------------------------------------------------------------------
(* The executor on its own: a constructed executor is handed commands *)

CmdHaltReboot == <<"h", "a", "l", "t", ";", "r", "e", "b", "o", "o", "t">>
CmdEcho == <<"e", "c", "h", "o">>

\* the commands handed to the executor and the validator
Commands == {CmdLs, CmdRm, CmdHaltReboot, CmdEcho}

ProcMid == Proc(<<"a">>, <<>>, 0, 3)
ProcEdge == [Proc(<<"a">>, <<"e">>, 1, 2) EXCEPT !.race = TRUE]

\* the process behaviours of the commands handed to the executor
ExecProcs == {ProcOk, ProcFail, ProcMid, ProcSlow, ProcEdge, ProcNoStart}

InitExec ==
    /\ impl \in {"agent", "wise"}
    /\ maxSteps = 1
    /\ built \in {b \in Builds : (b.ctor = "local.New") <=> (impl = "wise")}
    /\ executor = Construct(built)
    /\ pc = "new"
    /\ Idle
    /\ IdleUnits

\* Execute(ctx, action) is called on the executor with an action of the bash kind or
\* of another kind, with the context cancelled before the call, during the run of
\* the process, or not at all
ExecCall ==
    /\ pc = "new"
    /\ \E c \in Commands, p \in ExecProcs, cancel \in {"no", "before", "during"},
          type \in {ActionTypeBash, "python"} :
          LET a == [Type |-> type, Command |-> c]
              r == Execute(executor, cancel = "before", cancel = "during", a, p)
          IN  /\ (cancel = "during") => r.spawn
              /\ action' = a
              /\ call' = Call(p, cancel = "before", cancel = "during", r.spawn)
              /\ output' = r.out
              /\ stepRet' = Ret(<<>>, r.err, "execute")
              /\ execs' = <<c>>
              /\ spawned' = IF r.spawn THEN <<c>> ELSE <<>>
    /\ pc' = "called"
    /\ UNCHANGED <<cfgVars, unitVars, asked, messages, step, lastResponse, response, runRet,
                   ctxDone, queries, valRet, trace>>

\* Validate(command) is called on the validator of the executor
ValidateCall ==
    /\ pc = "new"
    /\ executor.validator.kind # "nil"
    /\ \E c \in Commands :
          LET r == ValidatorValidate(executor.validator, c)
          IN  valRet' = [command |-> c, err |-> r.err, evaluated |-> r.evaluated]
    /\ pc' = "validated"
    /\ UNCHANGED <<cfgVars, unitVars, execVars, messages, step, lastResponse, response, action,
                   stepRet, runRet, ctxDone, queries, trace>>

NextExec ==
    \/ ExecCall
    \/ ValidateCall

SpecExec == InitExec /\ [][NextExec]_vars

-----------------------------------------------------------------------------
(* Properties of Run and Step, stated over Spec *)

\* no Step of the run ended the run: each returned nil or a recoverable error
NoStepEndedRun == \A k \in 1..Len(trace) : trace[k].verdict \in {"ok", "recoverable"}

\* C1: with MaxSteps = N >= 1, a run in which no Step completes the task and no
\* Step fails fatally queries the model exactly N times, never N + 1 times, and
\* returns the step-limit terminating error.
C1_StepLimit ==
    /\ queries <= maxSteps
    /\ (pc = "done" /\ NoStepEndedRun) =>
          /\ queries = maxSteps
          /\ Len(trace) = maxSteps
          /\ runRet.reason = "step_limit"
          /\ runRet.err = TerminatingErr("step_limit", <<>>)

\* a run of two steps, one of them a failed command, that ended at the step limit
C1_Witness ==
    /\ pc = "done"
    /\ maxSteps = 2
    /\ queries = 2
    /\ runRet.reason = "step_limit"
    /\ \E k \in 1..Len(trace) : trace[k].at = "execute"

\* the first line of the stdout of o, surrounding white space removed, is the marker
FirstLineIsMarker(o) == TrimSpace(SplitN2(o.Stdout)[1]) = completionMarker

\* C2: when a command ran successfully and the first line of its stdout is
\* TASK_COMPLETE, Step returns the completion error without appending the
\* Output, Run returns a nil error with reason complete without another query
\* or execution, and the history ends with the assistant message.
C2_Completion ==
    /\ [][(pc = "handle" /\ FirstLineIsMarker(output)) =>
             /\ pc' = "ret"
             /\ stepRet'.at = "output"
             /\ stepRet'.err = TerminatingErr("complete", stepRet'.resp)
             /\ messages' = messages]_vars
    /\ [][(pc = "ret" /\ stepRet.at = "output" /\ FirstLineIsMarker(output)) =>
             /\ pc' = "done"
             /\ runRet'.err = Nil
             /\ runRet'.reason = "complete"
             /\ runRet'.resp = stepRet.resp
             /\ UNCHANGED <<messages, queries, execs, spawned>>]_vars
    /\ [][pc = "done" => UNCHANGED <<messages, queries, execs, spawned>>]_vars
    /\ []((pc = "done" /\ runRet.reason = "complete") =>
             /\ runRet.err = Nil
             /\ messages[Len(messages)] = Message("assistant", response))

\* a run that completed in its second step
C2_Witness ==
    /\ pc = "done"
    /\ runRet.reason = "complete"
    /\ FirstLineIsMarker(output)
    /\ step = 1
    /\ queries = 2

\* everything in stdout after the line that holds the marker, the line the
\* detection looked at: the first line of stdout once its leading white space is gone
AfterMarkerLine(s) ==
    LET rest == TrimLeft(s)
        i == IndexNL(rest)
    IN  IF i = 0 THEN <<>> ELSE TrimSpace(SubSeq(rest, i + 1, Len(rest)))

\* C3: for every stdout on which the completion is detected, the final output
\* is everything after the marker line, trimmed: detection and extraction
\* agree on which line is the marker line.
C3_FinalOutput ==
    (pc = "done" /\ runRet.reason = "complete") =>
        runRet.resp = AfterMarkerLine(output.Stdout)

\* C4: a failure of the model query is fatal whatever the error value is: Run
\* returns it to the caller and never treats it as recoverable or terminal.
C4_QueryFailureFatal ==
    (stepRet.at = "query" /\ pc \in {"loop", "done"}) =>
        /\ pc = "done"
        /\ runRet.reason = "fatal"
        /\ runRet.err = stepRet.err

\* every Step of the run ended in the parser
OnlyFormatErrors == \A k \in 1..Len(trace) : trace[k].at = "parse"

\* C5: when the parser rejects the response, Step appends no assistant message
\* and executes nothing; Run appends exactly one user message, the feedback,
\* counts the step and continues. A model that never answers in the required
\* format is queried exactly MaxSteps times and nothing is executed.
C5_FormatError ==
    /\ [][(pc = "parse" /\ pc' = "ret") =>
             /\ stepRet'.at = "parse"
             /\ ErrorsAs(stepRet'.err, "ProcessErr")
             /\ AsTarget(stepRet'.err, "ProcessErr").kind = "format"
             /\ UNCHANGED <<messages, execs, spawned>>]_vars
    /\ [][(pc = "ret" /\ stepRet.at = "parse") =>
             /\ messages' = Append(messages, Message("user", stepRet.err[1].msg))
             /\ step' = step + 1
             /\ pc' = "loop"
             /\ UNCHANGED <<queries, execs, spawned, runRet>>]_vars
    /\ []((pc = "done" /\ OnlyFormatErrors /\ Len(trace) = maxSteps) =>
             /\ queries = maxSteps
             /\ execs = <<>>
             /\ Len(messages) = 2 + maxSteps
             /\ \A k \in 1..Len(messages) : messages[k].Role # "assistant")

\* a run of two steps in which the parser rejected both responses
C5_Witness ==
    /\ pc = "done"
    /\ maxSteps = 2
    /\ Len(trace) = 2
    /\ OnlyFormatErrors
    /\ queries = 2
    /\ execs = <<>>

\* Execute returned an error to Step: a timeout, a failed command or a blocked one
ExecFailure ==
    /\ pc = "ret"
    /\ stepRet.at = "execute"
    /\ stepRet.err # Nil
    /\ stepRet.err[1].type \in {"ProcessErr", "ExecutionError"}
    /\ stepRet.err[1].kind \in {"timeout", "execution", "blocked"}

\* C6: a timeout, execution or blocked error of the executor is recoverable:
\* its message is appended as a user message after the assistant message of
\* the step, the step is counted, the loop continues, and the error is never
\* what Run returns.
C6_ExecFailureRecoverable ==
    /\ []((pc = "ret" /\ stepRet.at = "execute") => ExecFailure)
    /\ [](ExecFailure => messages[Len(messages)] = Message("assistant", response))
    /\ [][ExecFailure =>
             /\ messages' = Append(messages, Message("user", stepRet.err[1].msg))
             /\ step' = step + 1
             /\ pc' = "loop"
             /\ UNCHANGED runRet]_vars
    /\ [](pc = "done" =>
             \A k \in 1..Len(runRet.err) :
                 runRet.err[k].type \notin {"ProcessErr", "ExecutionError"})

\* Run went on after the validator of the executor blocked the command of the first step
C6_Witness ==
    /\ impl = "agent"
    /\ pc = "loop"
    /\ step = 1
    /\ trace = <<[at |-> "execute", verdict |-> "recoverable"]>>
    /\ action.Command = CmdRm
    /\ stepRet.err = ProcessErr("execution", BlockedMsg(DefaultBlockedPatterns[1]))
    /\ messages[Len(messages)] = Message("user", stepRet.err[1].msg)
    /\ messages[Len(messages) - 1].Role = "assistant"

\* the last Execute started a process that runs longer than the timeout of the
\* executor, and the caller did not cancel the context
RanPastTimeout ==
    /\ call.spawn
    /\ call.p.starts
    /\ ~call.before
    /\ ~call.during
    /\ call.p.dur > executor.timeout

\* s ends with t
HasSuffix(s, t) == Len(t) <= Len(s) /\ SubSeq(s, Len(s) - Len(t) + 1, Len(s)) = t

\* C7: a command that runs longer than the timeout is killed: the Output is
\* marked timed out and holds what was written so far, the error is of the
\* timeout kind and carries that partial output, and Run continues.
C7_Timeout ==
    /\ []((pc = "ret" /\ stepRet.at = "execute" /\ RanPastTimeout) =>
             /\ output.TimedOut
             /\ output.Stdout = call.p.stdout
             /\ output.Stderr = call.p.stderr
             /\ stepRet.err # Nil
             /\ stepRet.err[1].kind = "timeout"
             /\ HasSuffix(stepRet.err[1].msg, call.p.stdout \o call.p.stderr))
    /\ [][(pc = "ret" /\ stepRet.at = "execute" /\ RanPastTimeout) =>
             /\ pc' = "loop"
             /\ step' = step + 1
             /\ UNCHANGED runRet]_vars

\* Run is back at its loop after a command ran past the timeout
C7_Witness ==
    /\ pc = "loop"
    /\ step = 1
    /\ RanPastTimeout
    /\ output.TimedOut
    /\ output.Stdout # <<>>
    /\ trace = <<[at |-> "execute", verdict |-> "recoverable"]>>

-----------------------------------------------------------------------------
(* Properties of the executor and its validator, stated over SpecExec *)

\* the indices of the patterns of validator v that match command c
Hits(v, c) == {i \in 1..Len(v.patterns) : MatchString(Compile(v.patterns[i]), c)}

\* the least element of a non-empty set of numbers
Least(S) == CHOOSE i \in S : \A j \in S : i <= j

\* C8: when the command matches a pattern of the configured blocklist, Execute
\* returns the blocked error of the validator with an empty Output, and no
\* process is spawned.
C8_BlockedBeforeSpawn ==
    (/\ pc = "called"
     /\ action.Type = ActionTypeBash
     /\ executor.validator.kind # "nil"
     /\ Hits(executor.validator, action.Command) # {}) =>
        /\ stepRet.err = ValidatorValidate(executor.validator, action.Command).err
        /\ stepRet.err # Nil
        /\ stepRet.err[1].msg[1] = "Command blocked for safety: matches pattern "
        /\ output = EmptyOutput
        /\ spawned = <<>>
        /\ ~call.spawn

\* the bash executor with its default validator was handed rm -rf / and refused
C8_Witness ==
    /\ pc = "called"
    /\ action.Type = ActionTypeBash
    /\ executor.kind = "bash"
    /\ executor.validator = NewDefaultBlocklistValidator
    /\ action.Command = CmdRm
    /\ stepRet.err # Nil
    /\ output = EmptyOutput
    /\ spawned = <<>>

\* C9: Validate returns nil exactly when no pattern matches; when some pattern
\* matches, the error cites the first matching pattern in the configured
\* order and the patterns after it are not evaluated.
C9_FirstMatch ==
    (pc = "validated" /\ executor.validator.kind = "blocklist") =>
        LET patterns == executor.validator.patterns
            hits == Hits(executor.validator, valRet.command)
        IN  /\ (valRet.err = Nil) <=> (hits = {})
            /\ hits = {} => valRet.evaluated = Len(patterns)
            /\ hits # {} =>
                  /\ valRet.err = ProcessErr("execution", BlockedMsg(patterns[Least(hits)]))
                  /\ valRet.evaluated = Least(hits)

\* Validate was called with a command that two different patterns match
C9_Witness ==
    /\ pc = "validated"
    /\ executor.validator.kind = "blocklist"
    /\ valRet.err # Nil
    /\ \E i, j \in Hits(executor.validator, valRet.command) :
          /\ i < j
          /\ executor.validator.patterns[i] # executor.validator.patterns[j]

\* the construction names a validator, or names that there is none
ExplicitValidation(b) ==
    \E k \in 1..Len(b.opts) : b.opts[k].name \in {"WithValidator", "WithoutValidation"}

\* C10: an executor or environment constructed without disabling or replacing
\* validation holds the built-in validator, so a command of the default
\* blocklist is never run by it.
C10_ValidatorByDefault ==
    ~ExplicitValidation(built) =>
        /\ executor.validator.kind # "nil"
        /\ executor.validator.patterns = DefaultBlockedPatterns
        /\ (pc = "called" /\ action.Command \in {CmdRm, CmdHaltReboot}) => spawned = <<>>

-----------------------------------------------------------------------------
(* A BlocklistValidator on its own: constructed from a slice of pattern     *)
(* sources the caller goes on owning, then asked to validate commands       *)

\* how the validator was constructed, and the patterns it was constructed from
BuildValidator(ctor, patterns) == [ctor |-> ctor, patterns |-> patterns]

InitVal ==
    /\ impl = "agent"
    /\ maxSteps = 1
    /\ \/ /\ supplied \in PatternLists
          /\ built = BuildValidator("NewBlocklistValidator", supplied)
          /\ validator = NewBlocklistValidator(supplied)
       \/ /\ supplied = DefaultBlockedPatterns
          /\ built = BuildValidator("NewDefaultBlocklistValidator", supplied)
          /\ validator = NewDefaultBlocklistValidator
    /\ executor = NewBashExecutor(0, "", <<WithValidator(validator)>>)
    /\ pieces = <<>>
    /\ AllGiven
    /\ pc = "new"
    /\ Idle

\* v.Validate(command): the validator ranges over its own compiled patterns
ValidateAgain ==
    /\ pc \in {"new", "validated"}
    /\ \E c \in Commands :
          LET r == Validate(validator.patterns, c)
          IN  valRet' = [command |-> c, err |-> r.err, evaluated |-> r.evaluated]
    /\ pc' = "validated"
    /\ UNCHANGED <<cfgVars, execVars, supplied, validator, pieces, made, cli, messages,
                   step, lastResponse, response, action, stepRet, runRet, ctxDone, queries, trace>>

\* the caller writes an element of the slice it constructed the validator from
\* (its own []string, or the exported DefaultBlockedPatterns)
SliceWrite ==
    /\ pc \in {"new", "validated"}
    /\ \E i \in 1..Len(supplied), src \in CustomSources :
          /\ i <= MaxPatterns
          /\ supplied[i] # src
          /\ supplied' = [supplied EXCEPT ![i] = src]
    /\ UNCHANGED <<cfgVars, execVars, validator, pieces, made, cli, messages, step,
                   lastResponse, pc, response, action, stepRet, runRet, ctxDone, queries, valRet, trace>>

NextVal ==
    \/ ValidateAgain
    \/ SliceWrite

SpecVal == InitVal /\ [][NextVal]_vars

\* C11: a validator built from a caller-supplied pattern list blocks exactly
\* the commands that match one of the patterns it was constructed from: the
\* default patterns are not in effect besides them, and the pattern set of the
\* validator never changes, whatever the caller does with its slice afterwards.
C11_CustomPatternsOnly ==
    /\ [](pc = "validated" =>
             ((valRet.err # Nil) <=>
                 \E i \in 1..Len(built.patterns) :
                     MatchString(Compile(built.patterns[i]), valRet.command)))
    /\ [][validator' = validator]_vars

\* a validator constructed from custom patterns lets rm -rf / pass, after the
\* caller changed the slice it was constructed from
C11_Witness ==
    /\ pc = "validated"
    /\ built.ctor = "NewBlocklistValidator"
    /\ supplied # built.patterns
    /\ valRet.command = CmdRm
    /\ valRet.err = Nil

-----------------------------------------------------------------------------
(* The history of a Run *)

\* the history Run starts from
FreshHistory == <<Message("system", SystemPrompt), Message("user", Task)>>

\* a is a prefix of b
IsPrefix(a, b) == Len(a) <= Len(b) /\ SubSeq(b, 1, Len(a)) = a

\* C12: in every state reached during a Run, the first message of the history
\* is the system prompt with role system and the second is the task with role
\* user, and the history only grows: the history at an earlier point of the
\* Run is a prefix of the history at every later point.
C12_HistoryAppendOnly ==
    /\ [](pc # "idle" =>
             /\ Len(messages) >= 2
             /\ messages[1] = [Role |-> "system", Content |-> SystemPrompt]
             /\ messages[2] = [Role |-> "user", Content |-> Task])
    /\ [][pc # "idle" => IsPrefix(messages, messages')]_vars

\* a Run of two steps ended with a history of four messages or more
C12_Witness ==
    /\ pc = "done"
    /\ Len(trace) = 2
    /\ Len(messages) >= 4
    /\ messages[3].Role = "assistant"
    /\ messages[Len(messages)].Role = "user"

-----------------------------------------------------------------------------
(* Run called again on an instance on which an earlier Run has returned *)

\* what an earlier Run that got only malformed responses left on the instance
AfterStepLimit(n) ==
    [messages |-> FreshHistory \o [k \in 1..n |-> Message("user", MsgNoCommand)],
     step |-> n,
     runRet |-> RunRet(<<>>, TerminatingErr("step_limit", <<>>), "step_limit")]

\* what an earlier Run left whose first command completed the task
AfterComplete ==
    [messages |-> Append(FreshHistory, Message("assistant", RespLs)),
     step |-> 0,
     runRet |-> RunRet(Summary, Nil, "complete")]

\* what an earlier Run left whose first query failed
AfterFatal ==
    [messages |-> FreshHistory,
     step |-> 0,
     runRet |-> RunRet(<<>>, Wrap(<<"query failed: ">>, PlainErr(<<"model unavailable">>)),
                       "fatal")]

InitRerun ==
    /\ impl \in {"agent", "wise"}
    /\ maxSteps \in 1..MaxSteps
    /\ built \in RunBuilds(impl)
    /\ executor = Construct(built)
    /\ pc = "idle"
    /\ \E earlier \in {AfterStepLimit(maxSteps), AfterComplete, AfterFatal} :
          /\ messages = earlier.messages
          /\ step = earlier.step
          /\ runRet = earlier.runRet
    /\ lastResponse = <<>>
    /\ response = <<>>
    /\ action = NoAction
    /\ output = EmptyOutput
    /\ stepRet = NoRet
    /\ ctxDone = FALSE
    /\ queries = 0
    /\ execs = <<>>
    /\ spawned = <<>>
    /\ asked = <<>>
    /\ call = NoCall
    /\ valRet = [command |-> <<>>, err |-> Nil, evaluated |-> 0]
    /\ trace = <<>>
    /\ IdleUnits

SpecRerun == InitRerun /\ [][Next]_vars

\* the Steps of this Run that Run counted: those that returned nil or a recoverable error
StepsCounted == Cardinality({k \in 1..Len(trace) : trace[k].verdict \in {"ok", "recoverable"}})

\* C13: every Run starts from a fresh session: the history is reset to the
\* system prompt and the task and the step counter to 0, so no message and no
\* consumed step of an earlier Run on the instance carries over.
C13_FreshSession ==
    /\ [][pc = "idle" => (messages' = FreshHistory /\ step' = 0)]_vars
    /\ [](pc # "idle" =>
             /\ IsPrefix(FreshHistory, messages)
             /\ Len(messages) <= 2 + 2 * queries
             /\ step = StepsCounted
             /\ queries <= maxSteps)
    /\ []((pc = "done" /\ trace # <<>> /\ NoStepEndedRun) => queries = maxSteps)

\* a second Run, after one that used up its steps, is in its second step with
\* a history of three messages
C13_Witness ==
    /\ pc = "step"
    /\ maxSteps = 2
    /\ runRet.reason = "step_limit"
    /\ step = 1
    /\ queries = 1
    /\ Len(messages) = 3

-----------------------------------------------------------------------------
(* Cancellation, classification of Step's errors, termination *)

\* C14: if the context is already cancelled when a Step begins, the Step
\* returns a non-recoverable error without querying, parsing or executing and
\* leaves the history as it is; Run returns that error to the caller without
\* starting another step.
C14_CancelledBeforeStep ==
    /\ [][(pc = "step" /\ ctxDone) =>
             /\ pc' = "ret"
             /\ stepRet'.at = "ctx"
             /\ stepRet'.err # Nil
             /\ ~ErrorsAs(stepRet'.err, "ProcessErr")
             /\ ~ErrorsAs(stepRet'.err, "ExecutionError")
             /\ ~ErrorsAs(stepRet'.err, "TerminatingErr")
             /\ UNCHANGED <<messages, queries, execs, spawned, response, action>>]_vars
    /\ [][(pc = "ret" /\ stepRet.at = "ctx") =>
             /\ pc' = "done"
             /\ runRet' = RunRet(<<>>, stepRet.err, "fatal")
             /\ UNCHANGED <<messages, step, queries, execs, spawned>>]_vars
    /\ []((pc = "done" /\ stepRet.at = "ctx") => runRet.err = stepRet.err)

\* the caller cancelled the context after the first step; Run returned the error of
\* the second Step, which made no query
C14_Witness ==
    /\ pc = "done"
    /\ ctxDone
    /\ stepRet.at = "ctx"
    /\ runRet.reason = "fatal"
    /\ runRet.err # Nil
    /\ step = 1
    /\ queries = 1

\* the error is a terminating signal for Run
IsTerminating(err) == \E k \in 1..Len(err) : err[k].type = "TerminatingErr"

\* the error is of a kind Run recognizes as recoverable
IsRecoverableKind(i, err) ==
    \E k \in 1..Len(err) :
        \/ err[k].type = "ProcessErr"
        \/ (i = "wise" /\ err[k].type = "ExecutionError")

\* C15: Run puts every error of Step into exactly one of the classes terminal,
\* recoverable and fatal; an error that is neither a terminating signal nor of
\* a recognized recoverable kind aborts Run at once: Run returns that same
\* error with an empty result, appends no feedback message and performs no
\* further step.
C15_Classification ==
    /\ [][(pc = "ret" /\ stepRet.err # Nil) =>
             LET terminal == pc' = "done" /\ runRet'.err = Nil
                 recoverable == pc' = "loop" /\ Len(messages') = Len(messages) + 1
                 fatal == pc' = "done" /\ runRet'.err = stepRet.err
             IN  /\ terminal \/ recoverable \/ fatal
                 /\ ~(terminal /\ recoverable)
                 /\ ~(terminal /\ fatal)
                 /\ ~(recoverable /\ fatal)]_vars
    /\ [][(/\ pc = "ret"
           /\ stepRet.err # Nil
           /\ ~IsTerminating(stepRet.err)
           /\ ~IsRecoverableKind(impl, stepRet.err)) =>
             /\ pc' = "done"
             /\ runRet'.resp = <<>>
             /\ runRet'.err = stepRet.err
             /\ runRet'.reason = "fatal"
             /\ UNCHANGED <<messages, step, queries, execs, spawned>>]_vars
    /\ [][pc = "done" => pc' = "done"]_vars

\* Run returned the error of a failed query of its second step, after a first step
\* that left a response behind
C15_Witness ==
    /\ pc = "done"
    /\ impl = "agent"
    /\ runRet.reason = "fatal"
    /\ runRet.resp = <<>>
    /\ runRet.err = stepRet.err
    /\ stepRet.at = "query"
    /\ step = 1
    /\ lastResponse # <<>>

\* the steps of Run and Step themselves, given that every query and every
\* command execution returns: all of Next but the caller's Cancel
ProgramStep ==
    \/ RunStart
    \/ LoopEnter
    \/ LoopExit
    \/ StepCancelled
    \/ QueryOk
    \/ QueryFail
    \/ Parse
    \/ ExecuteAction
    \/ HandleOutput
    \/ StepOk
    \/ StepTerminal
    \/ StepRecoverable
    \/ StepFatal

\* Run under the assumption that the program keeps taking its steps
SpecLive == Init /\ [][Next]_vars /\ WF_vars(ProgramStep)

\* C16: Run always terminates: it reaches one of its outcomes after at most
\* MaxSteps steps, whatever the model and the commands do, and a recoverable
\* error cannot make the loop go on without consuming a step of the budget.
C16_Terminates ==
    /\ (pc = "loop") ~> (pc = "done" /\ runRet.reason \in {"complete", "step_limit", "fatal",
                                                          "user_abort"})
    /\ [](Len(trace) <= maxSteps /\ queries <= maxSteps /\ step <= maxSteps)
    /\ [][(pc = "ret" /\ pc' = "loop") => step' = step + 1]_vars

\* a Run of two steps that met only recoverable errors, one of the parser and one of
\* the executor, and ended at the step limit
C16_Witness ==
    /\ pc = "done"
    /\ maxSteps = 2
    /\ runRet.reason = "step_limit"
    /\ Len(trace) = 2
    /\ \A k \in 1..2 : trace[k].verdict = "recoverable"
    /\ {trace[k].at : k \in 1..2} = {"parse", "execute"}

-----------------------------------------------------------------------------
(* The parser on its own: ParseAction is handed a response text written     *)
(* from pieces, each a fenced block or a piece of text around the blocks    *)

\* most pieces a response text is written from
MaxPieces == 3

\* a bash-tagged fenced block: the opening fence with its tag, white space ws up to the
\* end of the line, the contents body on lines of their own, the closing fence
BashBlock(ws, body) ==
    [bash |-> TRUE, fence |-> TRUE, body |-> body,
     text |-> OpenTag \o ws \o <<"\n">> \o body \o CloseTag]

\* a piece of text that is no bash block; fence: it holds a fence (of another language)
Around(text, fence) == [bash |-> FALSE, fence |-> fence, body |-> <<>>, text |-> text]

\* the pieces: bash blocks with a command, with a command between white space, with a
\* command of two lines, with no contents and with blank contents; a word, a line
\* break, a command quoted inline, and a fenced block tagged sh
ResponsePieces ==
    { BashBlock(<<>>, CmdLs),
      BashBlock(<<" ">>, <<" ", "l", "s", " ">>),
      BashBlock(<<"\r">>, <<"a", "\r", "\n", "b", "\r">>),
      BashBlock(<<>>, <<>>),
      BashBlock(<<>>, <<" ">>),
      Around(<<"R", "u", "n", ":">>, FALSE),
      Around(<<"\n">>, FALSE),
      Around(<<"BQ", "l", "s", "BQ">>, FALSE),
      Around(Fence \o <<"s", "h", "\n", "x">> \o CloseTag, TRUE) }

\* the text written from the pieces ps, each piece on lines of its own
RECURSIVE Join(_)
Join(ps) ==
    IF ps = <<>> THEN <<>>
    ELSE IF Len(ps) = 1 THEN ps[1].text
    ELSE Head(ps).text \o <<"\n">> \o Join(Tail(ps))

InitParse ==
    /\ impl = "agent"
    /\ maxSteps = 1
    /\ built = Build("NewBashExecutor", "", 0, <<>>)
    /\ executor = Construct(built)
    /\ pieces \in UNION {[1..n -> ResponsePieces] : n \in 0..MaxPieces}
    /\ supplied = <<>>
    /\ validator = NilValidator
    /\ AllGiven
    /\ pc = "new"
    /\ Idle

\* p.ParseAction(response) is called with the text written from the pieces
ParseCall ==
    /\ pc = "new"
    /\ response' = Join(pieces)
    /\ LET r == ParseAction(Join(pieces))
       IN  /\ action' = r.action
           /\ stepRet' = Ret(<<>>, r.err, "parse")
    /\ pc' = "parsed"
    /\ UNCHANGED <<cfgVars, unitVars, execVars, messages, step, lastResponse, runRet,
                   ctxDone, queries, valRet, trace>>

SpecParse == InitParse /\ [][ParseCall]_vars

\* the contents of the bash blocks among the pieces, in their order
BlockBodies == SelectSeq(pieces, LAMBDA x : x.bash)

\* C17, as stated: for every response text that contains exactly one
\* well-formed bash-tagged fenced block, ParseAction returns an Action of kind
\* bash whose command is the trimmed contents of that block, and no error.
C17_OneBlockAsStated ==
    (pc = "parsed" /\ Len(BlockBodies) = 1) =>
        /\ stepRet.err = Nil
        /\ action = [Type |-> ActionTypeBash, Command |-> TrimSpace(BlockBodies[1].body)]

\* C17, amended: for every response text that contains exactly one bash-tagged
\* fenced block, and the contents of that block are not blank, ParseAction
\* returns an Action of kind bash whose command is the trimmed contents of the
\* block, and no error.
C17_OneBlock ==
    (/\ pc = "parsed"
     /\ Len(BlockBodies) = 1
     /\ TrimSpace(BlockBodies[1].body) # <<>>) =>
        /\ stepRet.err = Nil
        /\ action = [Type |-> ActionTypeBash, Command |-> TrimSpace(BlockBodies[1].body)]

\* the command of the one bash block, written between white space after a block of
\* another language, was parsed
C17_Witness ==
    /\ pc = "parsed"
    /\ Len(pieces) = 3
    /\ pieces[1].fence /\ ~pieces[1].bash
    /\ pieces[3].bash
    /\ pieces[3].body = <<" ", "l", "s", " ">>
    /\ stepRet.err = Nil
    /\ action.Command = CmdLs

\* C18: for every response text that contains no bash-tagged fenced block, or
\* two or more of them, ParseAction returns a FormatError and no Action; for
\* two or more blocks the feedback text reports the number of blocks.
C18_ZeroOrManyBlocks ==
    (pc = "parsed" /\ Len(BlockBodies) # 1) =>
        /\ stepRet.err # Nil
        /\ stepRet.err[1].type = "ProcessErr"
        /\ stepRet.err[1].kind = "format"
        /\ action = NoAction
        /\ Len(BlockBodies) >= 2 => stepRet.err[1].msg = MsgFound(Len(BlockBodies))

\* the response holds no fence but that of one bash block
LoneBlock == \A k \in 1..Len(pieces) : pieces[k].fence => pieces[k].bash

-----------------------------------------------------------------------------
\* the stdout of o is empty or white space only
BlankStdout(o) == \A k \in 1..Len(o.Stdout) : o.Stdout[k] \in Space

\* C20: for an Output whose stdout is blank (empty or white space only) and
\* whose exit code is 0, formatObservation returns exactly "(no output)", and
\* that text is the user message the step appends to the history.
C20_NoOutputSentinel ==
    [][(pc = "handle" /\ BlankStdout(output) /\ output.ExitCode = 0) =>
          /\ messages' = Append(messages, Message("user", <<"(no output)">>))
          /\ stepRet'.err = Nil
          /\ pc' = "ret"]_vars

\* a command that wrote only white space to stdout, and a warning to stderr, was
\* answered with "(no output)"
C20_Witness ==
    /\ pc = "ret"
    /\ stepRet.at = "output"
    /\ stepRet.err = Nil
    /\ output.Stdout = <<" ", "\n">>
    /\ output.Stderr # <<>>
    /\ output.ExitCode = 0
    /\ messages[Len(messages)] = Message("user", <<"(no output)">>)

-----------------------------------------------------------------------------
(* formatObservation on its own: outputs whose stdout is around maxLen long *)

\* the outputs handed to formatObservation: a stdout of n characters, each telling its
\* position (mod 10), for n around maxLen; a blank; two spaces before maxLen characters
ObsOutputs ==
    LET Numbered(n) == [i \in 1..n |-> Digits[(i % 10) + 1]]
    IN  { [Stdout |-> out, Stderr |-> errOut, ExitCode |-> code, TimedOut |-> FALSE] :
            out \in {Numbered(n) : n \in {0, 1, maxLen - 1, maxLen, maxLen + 1, maxLen + 2,
                                           maxLen + 29, maxLen + 30, maxLen + 31,
                                           2 * maxLen, 2 * maxLen + 1}}
                      \cup {<<" ">>, <<" ", " ">> \o Numbered(maxLen)},
            errOut \in {<<>>, <<"e">>},
            code \in {0, 1, 2, 127, -1} }

InitObs ==
    /\ impl \in {"agent", "wise"}
    /\ maxSteps = 1
    /\ built = IF impl = "agent" THEN Build("NewBashExecutor", "", 0, <<>>)
                ELSE Build("local.New", "NewConfig", 0, <<>>)
    /\ executor = Construct(built)
    /\ pc = "execute"
    /\ Idle
    /\ IdleUnits

\* the execution returned an Output and no error
Executed ==
    /\ pc = "execute"
    /\ output' \in ObsOutputs
    /\ pc' = "output"
    /\ UNCHANGED <<cfgVars, unitVars, call, execs, spawned, asked, messages, step,
                   lastResponse, response, action, stepRet, runRet, ctxDone, queries, valRet,
                   trace>>

\* feedback := a.formatObservation(output); a.addMessage(RoleUser, feedback)
Observe ==
    /\ pc = "output"
    /\ messages' = addMessage(messages, "user", formatObservation(output))
    /\ pc' = "observed"
    /\ UNCHANGED <<cfgVars, unitVars, execVars, step, lastResponse, response, action,
                   stepRet, runRet, ctxDone, queries, valRet, trace>>

SpecObs == InitObs /\ [][Executed \/ Observe]_vars

\* the text formatObservation makes of the stdout of o, by position: the stdout as it
\* is, or its first and last maxLen/2 characters around the notice
Kept(o, c) ==
    LET n == Len(o.Stdout)
        h == maxLen \div 2
    IN  IF n <= maxLen THEN c = o.Stdout
        ELSE /\ Len(c) = h + 1 + h
             /\ \A i \in 1..h : c[i] = o.Stdout[i] /\ c[h + 1 + i] = o.Stdout[n - h + i]
             /\ <<c[h + 1]>> = TruncationNotice

\* the observation c holds the stdout of o as Kept says, after the exit code when
\* it is not 0
Observed(o, c) ==
    LET mark == <<"[exit code: ">> \o Itoa(o.ExitCode) \o <<"]\n">>
    IN  IF o.ExitCode = 0 THEN Kept(o, c)
        ELSE /\ Len(c) >= 3
             /\ SubSeq(c, 1, Len(mark)) = mark
             /\ Kept(o, SubSeq(c, Len(mark) + 1, Len(c)))

\* C21, as stated: formatObservation leaves a stdout of at most maxLen (10000)
\* characters unchanged and cuts a longer one to its first maxLen/2 characters,
\* the truncation notice and its last maxLen/2 characters; a nonzero exit code
\* is written before it.
C21_TruncationAsStated ==
    pc = "observed" => Observed(output, messages[Len(messages)].Content)

\* C21, amended: unless the stdout is blank and the exit code 0,
\* formatObservation leaves a stdout of at most maxLen (10000) characters
\* unchanged and cuts a longer one to its first maxLen/2 characters, the
\* truncation notice and its last maxLen/2 characters; a nonzero exit code is
\* written before it.
C21_Truncation ==
    (pc = "observed" /\ ~(BlankStdout(output) /\ output.ExitCode = 0)) =>
        Observed(output, messages[Len(messages)].Content)

\* a stdout one character longer than maxLen was cut, after exit code 2
C21_Witness ==
    /\ pc = "observed"
    /\ Len(output.Stdout) = maxLen + 1
    /\ output.ExitCode = 2
    /\ ~BlankStdout(output)
    /\ Len(messages[Len(messages)].Content) = 3 + maxLen + 1

-----------------------------------------------------------------------------
\* C22: a Step that parses and executes successfully without completion
\* returns the raw response of the model as its result, with a nil error, after
\* appending the assistant message and the observation message.
C22_StepReturnsResponse ==
    [][(pc = "handle" /\ ~isTaskComplete(output)) =>
          /\ pc' = "ret"
          /\ stepRet'.err = Nil
          /\ stepRet'.resp = response
          /\ messages[Len(messages)] = Message("assistant", response)
          /\ Len(messages') = Len(messages) + 1
          /\ messages'[Len(messages')].Role = "user"]_vars

\* the response of the last step of the trace tr that succeeded, read from the history
\* msgs from its i-th message on (last: the one found so far): a step that succeeded or
\* failed in the execution left two messages, one that failed earlier left one
RECURSIVE LastSucceeded(_, _, _, _)
LastSucceeded(tr, msgs, i, last) ==
    IF tr = <<>> THEN last
    ELSE IF Head(tr).verdict = "ok"
    THEN LastSucceeded(Tail(tr), msgs, i + 2, msgs[i].Content)
    ELSE IF Head(tr).at = "execute"
    THEN LastSucceeded(Tail(tr), msgs, i + 2, last)
    ELSE LastSucceeded(Tail(tr), msgs, i + 1, last)

\* C23: when the step budget is exhausted without a terminal signal, the text
\* Run returns with the step limit signal is the response of the most recent
\* step that succeeded, or empty if none did; steps that ended in a recoverable
\* error do not overwrite it.
C23_StepLimitResult ==
    (pc = "done" /\ runRet.reason = "step_limit") =>
        runRet.resp = LastSucceeded(trace, messages, 3, <<>>)

-----------------------------------------------------------------------------
(* The configured step count: an agent constructed with any value of        *)
(* MaxSteps / WithMaxSteps, zero and negative ones among them, and run      *)

\* the maxSteps that wise.New sets for a zero value
DefaultMaxSteps == 25

InitSteps ==
    /\ impl \in {"agent", "wise"}
    /\ maxSteps \in -1..MaxSteps
    /\ built \in RunBuilds(impl)
    /\ executor = Construct(built)
    /\ handler = "none"
    /\ \E m, e \in BOOLEAN :
          /\ impl = "agent" => (m /\ e)
          /\ made = [model |-> m, env |-> e, agent |-> FALSE, err |-> Nil]
    /\ supplied = <<>>
    /\ validator = NilValidator
    /\ pieces = <<>>
    /\ cli = Running(FALSE, FALSE, FALSE)
    /\ pc = "new"
    /\ Idle

\* NewWithConfig keeps config.MaxSteps as it is and builds its own querier and
\* executor; wise.New replaces a zero maxSteps and stores the model and the
\* environment it is given, nil or not, and returns the agent with a nil error
NewAgent ==
    /\ pc = "new"
    /\ maxSteps' = IF impl = "wise" /\ maxSteps = 0 THEN DefaultMaxSteps ELSE maxSteps
    /\ made' = [made EXCEPT !.agent = TRUE, !.err = Nil]
    /\ pc' = "idle"
    /\ UNCHANGED <<impl, handler, executor, built, supplied, validator, pieces, cli,
                   execVars, messages, step, lastResponse, response, action, stepRet, runRet, ctxDone,
                   queries, valRet, trace>>

\* Step calls a method of a nil interface value: a.model.Query of a nil model,
\* a.env.Execute of a nil environment; the Go runtime panics
NilDereference ==
    /\ \/ pc = "step" /\ ~ctxDone /\ ~made.model
       \/ pc = "execute" /\ handler = "none" /\ ~made.env
    /\ pc' = "panic"
    /\ UNCHANGED <<cfgVars, unitVars, execVars, messages, step, lastResponse, response,
                   action, stepRet, runRet, ctxDone, queries, valRet, trace>>

\* a run of more than MaxSteps steps is followed along one course only: the model
\* answers with a command, the command succeeds, the context is not cancelled
Calm ==
    maxSteps > MaxSteps =>
        /\ pc = "step" => (pc' = "parse" /\ response' = RespLs)
        /\ pc = "execute" => call' = Call(ProcOk, FALSE, FALSE, TRUE)
        /\ ctxDone' = ctxDone

NextSteps == NewAgent \/ NilDereference \/ (Next /\ Calm)

SpecSteps == InitSteps /\ [][NextSteps]_vars

\* C24: every Run performs at least one step and at most maxSteps steps, for
\* every step count that construction accepts, zero and negative ones among them.
C24_OneToMaxSteps ==
    pc = "done" => (Len(trace) >= 1 /\ Len(trace) <= maxSteps)

\* C25: wise.New called with a nil model returns ErrModelRequired, called with a nil
\* environment returns ErrEnvironmentRequired, and in both cases returns no agent.
C25_NewRequiresBoth ==
    (impl = "wise" /\ pc # "new") =>
        /\ (~made.model \/ ~made.env) => ~made.agent
        /\ (~made.model /\ made.env) => made.err = PlainErr(<<"model is required">>)
        /\ (made.model /\ ~made.env) => made.err = PlainErr(<<"environment is required">>)

----------------------------------------------------------------------------
(* The custom action handler of wise.baseAgent *)

\* what an ActionHandler may return: (output, handled, error)
HandlerResults ==
    LET Out(stdout) == [EmptyOutput EXCEPT !.Stdout = stdout]
        Result(o, h, e) == [out |-> o, handled |-> h, err |-> e]
    IN  { Result(Out(<<"4", "2">>), TRUE, Nil),
          Result(Out(completionMarker \o <<"\n">> \o Summary), TRUE, Nil),
          Result(EmptyOutput, TRUE, PlainErr(<<"handler failed">>)),
          Result(EmptyOutput, TRUE, ExecutionError("execution", <<"bad arguments">>)),
          Result(EmptyOutput, FALSE, Nil),
          Result(Out(<<"x">>), FALSE, PlainErr(<<"not mine">>)) }

\* an agent of package wise that is configured with an action handler
InitHandler ==
    /\ impl = "wise"
    /\ maxSteps \in 1..MaxSteps
    /\ built \in RunBuilds(impl)
    /\ executor = Construct(built)
    /\ handler = "custom"
    /\ made = [model |-> TRUE, env |-> TRUE, agent |-> TRUE, err |-> Nil]
    /\ supplied = <<>>
    /\ validator = NilValidator
    /\ pieces = <<>>
    /\ cli = Running(FALSE, FALSE, FALSE)
    /\ pc = "idle"
    /\ Idle

\* faulty variant: whatever the handler returns is taken as handled
HandlerCallAlwaysHandled ==
    /\ pc = "execute"
    /\ handler # "none"
    /\ \E r \in HandlerResults :
          /\ asked' = Append(asked, [cmd |-> action.Command, out |-> r.out,
                                     handled |-> r.handled, err |-> r.err])
          /\ IF r.err # Nil
             THEN stepRet' = Ret(<<>>, r.err, "handler") /\ pc' = "ret" /\ output' = output
             ELSE stepRet' = stepRet /\ pc' = "handle" /\ output' = r.out
    /\ UNCHANGED <<cfgVars, unitVars, call, execs, spawned, messages, step, lastResponse,
                   response, action, runRet, ctxDone, queries, valRet, trace>>

\* Step tries the custom action handler first: a handled action returns the handler's
\* error or goes to handleOutput with the handler's output; an action that is not
\* handled goes on to the environment, whatever else the handler returned
HandlerCall ==
    /\ pc = "execute"
    /\ handler # "none"
    /\ \E r \in HandlerResults :
          /\ asked' = Append(asked, [cmd |-> action.Command, out |-> r.out,
                                     handled |-> r.handled, err |-> r.err])
          /\ IF ~r.handled
             THEN stepRet' = stepRet /\ pc' = "default" /\ output' = output
             ELSE IF r.err # Nil
             THEN stepRet' = Ret(<<>>, r.err, "handler") /\ pc' = "ret" /\ output' = output
             ELSE stepRet' = stepRet /\ pc' = "handle" /\ output' = r.out
    /\ UNCHANGED <<cfgVars, unitVars, call, execs, spawned, messages, step, lastResponse,
                   response, action, runRet, ctxDone, queries, valRet, trace>>

NextHandler == HandlerCall \/ Next

SpecHandler == InitHandler /\ [][NextHandler]_vars

\* C26: a configured action handler is consulted once for every parsed action, after
\* the assistant message is appended and before the environment; Execute of the
\* environment is called exactly once for each action the handler did not handle
\* and never for one it handled; the output or the error of a handled action is
\* processed as a result of the environment is: the error is what Step returns,
\* the output goes through the completion check and becomes the observation.
C26_HandlerFirst ==
    handler # "none" =>
        LET assistants == SelectSeq(messages, LAMBDA m : m.Role = "assistant")
            declined == SelectSeq(asked, LAMBDA a : ~a.handled)
            last == asked[Len(asked)]
        IN  /\ Len(asked) = Len(assistants) - (IF pc = "execute" THEN 1 ELSE 0)
            /\ \A i \in 1..Len(asked) :
                  asked[i].cmd = WiseParseAction(assistants[i].Content).action.Command
            /\ Len(execs) = Len(declined) - (IF pc = "default" THEN 1 ELSE 0)
            /\ \A i \in 1..Len(execs) : execs[i] = declined[i].cmd
            /\ (pc = "handle" /\ last.handled) => output = last.out
            /\ (pc = "ret" /\ stepRet.at = "handler") =>
                  (last.handled /\ last.err # Nil /\ stepRet = Ret(<<>>, last.err, "handler"))
            /\ (pc = "ret" /\ stepRet.at = "output" /\ last.handled) =>
                  /\ last.err = Nil
                  /\ IF isTaskComplete(last.out)
                     THEN stepRet.err = TerminatingErr("complete", extractFinalOutput(last.out))
                     ELSE /\ stepRet.err = Nil
                          /\ messages[Len(messages)] =
                                 Message("user", formatObservation(last.out))

\* a run in which the handler handled one action and declined another, which the
\* environment then executed
C26_Witness ==
    /\ handler # "none"
    /\ pc = "done"
    /\ Len(execs) = 1
    /\ \E i, j \in 1..Len(asked) : asked[i].handled /\ ~asked[j].handled

\* C27: BaseAgent and baseAgent (without an action handler) are equivalent: from the
\* same history, the same response of the model and the same outcome of the
\* execution, the Step of each leaves the same history and returns the same result.
C27_SameStep ==
    (pc = "handle" /\ handler = "none") =>
        handleOutput("agent", messages, response, output)
            = handleOutput("wise", messages, response, output)

----------------------------------------------------------------------------
(* The run subcommand: what it prints when Run has returned, and its exit code *)

ExitError == 1
ExitMisuse == 2
ExitPermissionDenied == 126

\* err.Error(): fmt.Errorf writes its prefix before the text of the error it wraps
RECURSIVE ErrorText(_)
ErrorText(err) ==
    IF err = Nil THEN <<>>
    ELSE LET e == Head(err)
         IN  CASE e.type = "wrapError" -> e.msg \o ErrorText(Tail(err))
               [] e.type = "TerminatingErr" -> <<"terminating: ", e.kind>>
               [] e.type = "ProcessErr" -> <<"process error [", e.kind, "]: ">> \o e.msg
               [] e.type = "ExecutionError" -> <<"execution error [", e.kind, "]: ">> \o e.msg
               [] OTHER -> e.msg

\* handleError(err, context) in the process c: with --json the error goes back to
\* cobra, whose Execute exits with ExitError; otherwise the message is written to
\* stderr and the process exits with the code its text selects
handleError(c, err) ==
    LET msg == ErrorText(err)
        Contains(word) == \E i \in 1..Len(msg) : msg[i] = word
    IN  IF c.json THEN [c EXCEPT !.exit = ExitError]
        ELSE IF Contains("OPENROUTER_API_KEY")
        THEN [c EXCEPT !.stderr = <<"Error: API key not configured.">>, !.exit = ExitMisuse]
        ELSE IF Contains("OPENROUTER_BASE_URL")
        THEN [c EXCEPT !.stderr = <<"Error: API base URL not configured.">>,
                       !.exit = ExitMisuse]
        ELSE IF Contains("permission denied")
        THEN [c EXCEPT !.stderr = <<"Error: Permission denied during running agent.">>,
                       !.exit = ExitPermissionDenied]
        ELSE [c EXCEPT !.stderr = <<"Error: ">> \o msg \o <<"\n">>, !.exit = ExitError]

\* the end of runAgent in the process c, after a.Run returned (resp, err): with --json
\* outputJSON encodes the RunResult and runAgent returns what Encode returned, nil;
\* otherwise an error goes to handleError, and without one the response (or
\* "Done.") is printed unless --quiet, and runAgent returns nil
runAgent(c, resp, err) ==
    IF c.json
    THEN [c EXCEPT !.result = <<[Success |-> err = Nil, Task |-> Task, Response |-> resp,
                                 Error |-> ErrorText(err)]>>,
                   !.exit = 0]
    ELSE IF err # Nil THEN handleError(c, err)
    ELSE [c EXCEPT !.stdout = IF c.quiet THEN <<>>
                              ELSE IF resp # <<>> THEN resp \o <<"\n">>
                              ELSE <<"Done.", "\n">>,
                   !.exit = 0]

\* the run subcommand has built a BaseAgent; --verbose and --quiet exclude each other
InitCmd ==
    /\ impl = "agent"
    /\ maxSteps \in 1..MaxSteps
    /\ built \in RunBuilds(impl)
    /\ executor = Construct(built)
    /\ handler = "none"
    /\ made = [model |-> TRUE, env |-> TRUE, agent |-> TRUE, err |-> Nil]
    /\ supplied = <<>>
    /\ validator = NilValidator
    /\ pieces = <<>>
    /\ \E q, v, j \in BOOLEAN : ~(q /\ v) /\ cli = Running(q, v, j)
    /\ pc = "idle"
    /\ Idle

\* a.Run has returned: runAgent reports the result and the process exits
RunAgentEnds ==
    /\ pc = "done"
    /\ cli' = runAgent(cli, runRet.resp, runRet.err)
    /\ pc' = "exited"
    /\ UNCHANGED <<cfgVars, execVars, supplied, validator, pieces, made, messages, step,
                   lastResponse, response, action, stepRet, runRet, ctxDone, queries, valRet,
                   trace>>

\* runAgent runs the agent under context.Background(), which is never cancelled
NextCmd == RunAgentEnds \/ (Next /\ ctxDone' = FALSE)

SpecCmd == InitCmd /\ [][NextCmd]_vars

\* C28: in every output mode the exit code of the run subcommand is 0 exactly when
\* Run ended with a terminal signal (complete, step limit), and then the final
\* output is printed (unless --quiet asks for silence); it is nonzero whenever Run
\* ended with a fatal error.
C28_ExitCode ==
    pc = "exited" =>
        /\ (cli.exit = 0) <=> (runRet.reason # "fatal")
        /\ (runRet.reason # "fatal" /\ cli.json) => cli.result[1].Response = runRet.resp
        /\ (runRet.reason # "fatal" /\ ~cli.json /\ ~cli.quiet) =>
              cli.stdout = (IF runRet.resp # <<>> THEN runRet.resp ELSE <<"Done.">>) \o <<"\n">>

----------------------------------------------------------------------------
(* LoadConfig: the merge of the environment variables and config.toml *)

\* LoadEnv: a variable that is not set takes the default of its field's tag.
\* Durations are counted in seconds.
LoadEnv(env) ==
    [Model |-> IF env.MODEL.set THEN env.MODEL.val ELSE "anthropic/claude-3.5-sonnet",
     MaxSteps |-> IF env.MAX_STEPS.set THEN env.MAX_STEPS.val ELSE 25,
     CommandTimeout |-> IF env.COMMAND_TIMEOUT.set THEN env.COMMAND_TIMEOUT.val ELSE 30]

\* LoadConfig, for the shared fields: the values of LoadEnv, each replaced by the
\* value of config.toml when that is present and the value of LoadEnv is the default
LoadConfig(env, toml) ==
    LET envCfg == LoadEnv(env)
        ParseDuration(str) ==
            CASE str = "45s" -> [d |-> 45, err |-> Nil]
              [] str = "2m" -> [d |-> 120, err |-> Nil]
              [] OTHER -> [d |-> 0,
                           err |-> PlainErr(<<"time: invalid duration ", str>>)]
        parsed == ParseDuration(toml.CommandTimeout)
        tomlTimeout == toml.CommandTimeout # "" /\ envCfg.CommandTimeout = 30
    IN  IF tomlTimeout /\ parsed.err # Nil
        THEN [cfg |-> [Model |-> "", MaxSteps |-> 0, CommandTimeout |-> 0],
              err |-> Wrap(<<"invalid command_timeout in config.toml: ">>, parsed.err)]
        ELSE [cfg |->
                [Model |-> IF toml.Model # "" /\ envCfg.Model = "anthropic/claude-3.5-sonnet"
                           THEN toml.Model ELSE envCfg.Model,
                 MaxSteps |-> IF toml.MaxSteps > 0 /\ envCfg.MaxSteps = 25
                              THEN toml.MaxSteps ELSE envCfg.MaxSteps,
                 CommandTimeout |-> IF tomlTimeout THEN parsed.d ELSE envCfg.CommandTimeout],
              err |-> Nil]

\* the run subcommand starts in an environment and a directory: each of the three
\* variables is unset, set to the default value or set to another value, and
\* config.toml gives each of the three fields or leaves it out
InitConfig ==
    /\ \E m \in {"", "anthropic/claude-3.5-sonnet", "openai/gpt-4o"}, n \in {0, 25, 10},
          t \in {0, 30, 60}, tm \in {"", "google/gemini-pro"}, tn \in {0, 50, -5},
          tt \in {"", "45s", "2m", "soon"} :
          cli = [Running(FALSE, FALSE, FALSE) EXCEPT
                    !.env = [MODEL |-> [set |-> m # "", val |-> m],
                             MAX_STEPS |-> [set |-> n # 0, val |-> n],
                             COMMAND_TIMEOUT |-> [set |-> t # 0, val |-> t]],
                    !.toml = [Model |-> tm, MaxSteps |-> tn, CommandTimeout |-> tt]]
    /\ impl = "agent"
    /\ maxSteps = 1
    /\ built = Build("NewBashExecutor", "", 0, <<>>)
    /\ executor = Construct(built)
    /\ handler = "none"
    /\ made = [model |-> TRUE, env |-> TRUE, agent |-> FALSE, err |-> Nil]
    /\ supplied = <<>>
    /\ validator = NilValidator
    /\ pieces = <<>>
    /\ pc = "new"
    /\ Idle

\* runAgent calls agent.LoadConfig(".")
LoadConfigCall ==
    /\ pc = "new"
    /\ cli' = [cli EXCEPT !.loaded = LoadConfig(cli.env, cli.toml)]
    /\ pc' = "loaded"
    /\ UNCHANGED <<cfgVars, execVars, supplied, validator, pieces, made, messages, step,
                   lastResponse, response, action, stepRet, runRet, ctxDone, queries, valRet,
                   trace>>

SpecConfig == InitConfig /\ [][LoadConfigCall]_vars

\* C29: in LoadConfig a value set through the environment variable takes precedence
\* over the value of config.toml, for the model, the maximum of steps and the
\* command timeout: the TOML value of a field is used, or even looked at, only
\* when the field's environment variable is not set.
C29_EnvPrecedence ==
    pc = "loaded" =>
        LET cfg == cli.loaded.cfg
        IN  /\ cli.env.COMMAND_TIMEOUT.set => cli.loaded.err = Nil
            /\ cli.loaded.err = Nil =>
                  /\ cli.env.MODEL.set => cfg.Model = cli.env.MODEL.val
                  /\ cli.env.MAX_STEPS.set => cfg.MaxSteps = cli.env.MAX_STEPS.val
                  /\ cli.env.COMMAND_TIMEOUT.set =>
                        cfg.CommandTimeout = cli.env.COMMAND_TIMEOUT.val

\* C30: Execute, given an action whose kind is not the bash kind, rejects it with
\* the unsupported-kind error and an empty Output, without invoking the validator
\* and without spawning a process.
C30_UnsupportedKind ==
    (pc = "called" /\ action.Type # ActionTypeBash) =>
        /\ stepRet.err = UnsupportedErr(action)
        /\ output = EmptyOutput
        /\ ~Execute(executor, call.before, call.during, action, call.p).validated
        /\ spawned = <<>>
        /\ ~call.spawn

\* an executor that blocks rm -rf / was handed that command in an action of another
\* kind, with a process ready to run, and rejected the kind
C30_Witness ==
    /\ pc = "called"
    /\ action.Type # ActionTypeBash
    /\ action.Command = CmdRm
    /\ Hits(executor.validator, CmdRm) # {}
    /\ call.p = ProcOk
    /\ stepRet.err = UnsupportedErr(action)

----------------------------------------------------------------------------
(* Further properties of Execute, stated over SpecExec *)

\* the process of the last Execute call ended by itself, within the deadline
ExitedByItself == ~call.during /\ call.p.dur <= executor.timeout

\* the outcomes of the last Execute call, among "clean" (no error, exit code 0,
\* TimedOut false), "timedOut" (a timeout error, TimedOut true, the deadline expired)
\* and "failed" (an execution error, TimedOut false, the exit code that of a process
\* that exited by itself and killed otherwise)
Outcomes(killed) ==
    LET err == stepRet.err
    IN  {o \in {"clean", "timedOut", "failed"} :
            \/ o = "clean" /\ err = Nil /\ output.ExitCode = 0 /\ ~output.TimedOut
            \/ /\ o = "timedOut"
               /\ err # Nil
               /\ err[1].kind = "timeout"
               /\ output.TimedOut
               /\ call.p.dur >= executor.timeout
            \/ /\ o = "failed"
               /\ err # Nil
               /\ err[1].kind = "execution"
               /\ ~output.TimedOut
               /\ output.ExitCode = IF ExitedByItself THEN call.p.exit ELSE killed}

----------------------------------------------------------------------------
(* Further properties of Run and Step, stated over Spec *)

\* the number of Steps of the run, the one under way included if there is one, that
\* have gone through one of the parts in ats of Step
StepsThrough(ats, underWay) ==
    Cardinality({k \in 1..Len(trace) : trace[k].at \in ats})
        + (IF pc \in underWay \/ (pc = "ret" /\ stepRet.at \in ats) THEN 1 ELSE 0)

\* C32: steps are strictly sequential: each step makes exactly one model query
\* (none when it is aborted by the cancellation check), then at most one parse,
\* then at most one execution; an execution happens only after a successful parse
\* of the same step, and a step starts only when the step before has returned. The
\* number of queries never exceeds the number of steps started.
C32_Sequential ==
    LET started == Len(trace) + (IF pc \in {"step", "parse", "execute", "handle", "ret"}
                                 THEN 1 ELSE 0)
        queried == StepsThrough({"query", "parse", "execute", "output"},
                                {"parse", "execute", "handle"})
        parsed == StepsThrough({"execute", "output"}, {"execute", "handle"})
        executed == StepsThrough({"execute", "output"}, {"handle"})
        assistants == Cardinality({k \in 1..Len(messages) : messages[k].Role = "assistant"})
    IN  /\ queries = queried
        /\ queries <= started
        /\ assistants = parsed
        /\ Len(execs) = executed
        /\ executed <= parsed
        /\ parsed <= queried

\* a run of two steps: the first ended at the parser, the second executed a command
C32_Witness ==
    /\ pc = "done"
    /\ Len(trace) = 2
    /\ trace[1].at = "parse"
    /\ trace[2].at = "output"
    /\ queries = 2
    /\ Len(execs) = 1

\* the number of groups the history msgs falls into from position i on, a group being
\* one user message, or one assistant message and the user message after it, or,
\* at the very end, one assistant message; -1 when it does not fall into such groups
RECURSIVE Groups(_, _)
Groups(msgs, i) ==
    IF i > Len(msgs) THEN 0
    ELSE IF msgs[i].Role = "user"
    THEN (IF Groups(msgs, i + 1) < 0 THEN -1 ELSE 1 + Groups(msgs, i + 1))
    ELSE IF msgs[i].Role # "assistant" THEN -1
    ELSE IF i = Len(msgs) THEN 1
    ELSE IF msgs[i + 1].Role # "user" \/ Groups(msgs, i + 2) < 0 THEN -1
    ELSE 1 + Groups(msgs, i + 2)

\* the history begins with the system prompt and the task, and the rest falls into
\* groups; every assistant message is a response the parser took a command from
WellGrouped ==
    /\ Len(messages) >= 2
    /\ messages[1] = Message("system", SystemPrompt)
    /\ messages[2] = Message("user", Task)
    /\ Groups(messages, 3) >= 0
    /\ \A k \in 1..Len(messages) :
          messages[k].Role = "assistant" => ParseTable[impl, messages[k].Content].err = Nil

\* the Steps of the run that ended it before anything was appended: stopped by the
\* cancellation check, or by an error of the query that is not recoverable
Silent == {k \in 1..Len(trace) : trace[k].at \in {"ctx", "query"}
                                   /\ trace[k].verdict \in {"fatal", "terminal"}}

\* C33 (amended): at every point of a Run the history is [system, task] followed by
\* one group per finished step, each group a single user feedback message or an
\* assistant message followed by exactly one user message, the last group possibly
\* an assistant message alone; only a step that ends the run before the parser is
\* reached (cancellation check, fatal or terminating query error) leaves no group.
\* Every assistant message is a response the parser extracted a command from, and
\* after k steps the history length is between 2+k-1 and 2+2k, and at least 2+k
\* unless the last step left no group.
C33_HistoryGroups ==
    pc # "idle" =>
        /\ WellGrouped
        /\ Silent \subseteq {Len(trace)}
        /\ pc \in {"loop", "done"} =>
              /\ Groups(messages, 3) = Len(trace) - Cardinality(Silent)
              /\ Len(messages) >= 2 + Len(trace) - Cardinality(Silent)
              /\ Len(messages) <= 2 + 2 * Len(trace)
              /\ (messages[Len(messages)].Role = "assistant") => pc = "done"

\* a run of two steps: the first left a feedback message, the second was ended by
\* an error of its query and left no group
C33_Witness ==
    /\ pc = "done"
    /\ Len(trace) = 2
    /\ Silent = {2}
    /\ Len(messages) = 3
    /\ messages[3].Role = "user"

\* C33: at every point of a Run the history is [system, task] followed by one group
\* per finished step, each group a single user feedback message or an assistant
\* message followed by exactly one user message, the last group possibly an
\* assistant message alone. Every assistant message is a response the parser
\* extracted a command from, and after k steps the history length is between 2+k
\* and 2+2k.
C33_OneGroupPerStep ==
    pc # "idle" =>
        /\ WellGrouped
        /\ pc \in {"loop", "done"} =>
              /\ Groups(messages, 3) = Len(trace)
              /\ Len(messages) >= 2 + Len(trace)
              /\ Len(messages) <= 2 + 2 * Len(trace)
              /\ (messages[Len(messages)].Role = "assistant") => pc = "done"

\* C34: when the caller cancels the context while a command is executing, the
\* process is killed, and Run returns the cancellation to the caller as a fatal
\* error, at whichever step of the budget the cancellation occurs, the last one
\* included, and not a step limit or a completion.
C34_CancelledWhileExecuting ==
    (pc = "done" /\ call.during) =>
        /\ call.spawn
        /\ output.ExitCode = -1
        /\ runRet.reason = "fatal"
        /\ runRet.err = Wrap(<<"context cancelled: ">>, PlainErr(<<"context canceled">>))

\* C35: with the default executor the completion check and the formatting of the
\* observation are reached only for commands that exited with code 0 before the
\* deadline: a command whose stdout starts with TASK_COMPLETE but which exits with
\* another code or times out never completes the run, and no observation carries
\* the exit-code prefix.
C35_OnlyCleanExits ==
    LET cleanExit == /\ call.spawn
                     /\ ExitedByItself
                     /\ call.p.exit = 0
                     /\ output.ExitCode = 0
                     /\ ~output.TimedOut
    IN  /\ pc = "handle" => cleanExit
        /\ (pc = "ret" /\ stepRet.at = "output") => cleanExit
        /\ (pc = "done" /\ runRet.reason = "complete") => cleanExit
        /\ \A k \in 1..Len(messages) : messages[k].Content[1] # "[exit code: "

\* a run in which a command that printed TASK_COMPLETE exited with code 1 and the
\* run went on to its step limit
C35_Witness ==
    /\ pc = "done"
    /\ runRet.reason = "step_limit"
    /\ call # NoCall
    /\ call.spawn
    /\ call.p = ProcFailDone
    /\ Len(trace) > 0
    /\ trace[Len(trace)].at = "execute"

----------------------------------------------------------------------------
(* Further properties of the action handler, stated over SpecHandler *)

\* the validator of the environment accepts the command
Accepted(c) == ValidatorValidate(executor.validator, c).err = Nil

\* C36: when the environment has a validator, every command the environment ran
\* during a Run was first accepted by the validator, and no command that
\* matches a pattern of the blocklist was run by the environment; a command the
\* custom action handler handled did not pass through the validator.
C36_EnvironmentAccepted ==
    executor.validator.kind # "nil" =>
        LET declined == SelectSeq(asked, LAMBDA a : ~a.handled)
        IN  /\ \A i \in 1..Len(spawned) :
                  Accepted(spawned[i]) /\ Hits(executor.validator, spawned[i]) = {}
            /\ Len(spawned) <= Len(execs)
            /\ Len(execs) <= Len(declined)
            /\ \A i \in 1..Len(execs) : execs[i] = declined[i].cmd

\* a run in which the handler left rm -rf / to the environment, which refused it,
\* and left ls to the environment, which ran it
C36_Witness ==
    /\ executor.validator.kind # "nil"
    /\ \E i \in 1..Len(execs) : execs[i] = CmdRm
    /\ \E i \in 1..Len(asked) : asked[i].cmd = CmdRm /\ ~asked[i].handled
    /\ spawned = <<CmdLs>>

\* C36 as stated: the commands the handler handled were accepted by the validator
\* too
C36_AllExecutedAccepted ==
    executor.validator.kind # "nil" =>
        /\ \A i \in 1..Len(spawned) : Accepted(spawned[i])
        /\ \A i \in 1..Len(asked) : asked[i].handled => Accepted(asked[i].cmd)

----------------------------------------------------------------------------
(* The deadline of a constructed executor *)

\* the timeouts a caller passes to a constructor or to WithTimeout
CallerTimeouts == {-1, 0, 2}

\* the constructions with every timeout a caller may pass, as argument and as option
TimeoutBuilds ==
    LET opts == UNION {[1..n -> {WithTimeout(t) : t \in CallerTimeouts} \cup {WithoutValidation}] :
                          n \in 0..MaxOpts}
    IN  {Build("NewBashExecutor", "", t, o) : t \in CallerTimeouts, o \in opts}
        \cup {Build("local.New", b, 0, o) : b \in {"NewConfig", "zero"}, o \in opts}

InitDeadline ==
    /\ impl \in {"agent", "wise"}
    /\ maxSteps = 1
    /\ built \in {b \in TimeoutBuilds : (b.ctor = "local.New") <=> (impl = "wise")}
    /\ executor = Construct(built)
    /\ pc = "new"
    /\ Idle
    /\ IdleUnits

SpecDeadline == InitDeadline /\ [][ExecCall]_vars

\* C37: the deadline a constructed executor applies to a command is strictly
\* positive, whatever timeout was passed to the constructor and to WithTimeout: a
\* zero or negative timeout is replaced by the default of 30 seconds, and no
\* executor reports a timeout for a command it did not start.
C37_PositiveDeadline ==
    pc = "called" =>
        /\ executor.timeout > 0
        /\ output.TimedOut => call.spawn

----------------------------------------------------------------------------
(* Further properties of formatObservation, stated over SpecObs *)

\* len() of the piece of text an atom of the model stands for: the string literals of
\* formatObservation are one atom each, every other atom is one character
AtomLen(a) ==
    CASE a = "\n\n[... output truncated ...]\n\n" -> 30
      [] a = "(no output)" -> 11
      [] a = "[exit code: " -> 12
      [] a = "]\n" -> 2
      [] OTHER -> 1

\* the atoms that stand for a string literal
Literals == {TruncationNotice[1], "(no output)", "[exit code: ", "]\n"}

\* the characters the atoms of t at the positions S stand for beyond the first
RECURSIVE Beyond(_, _)
Beyond(t, S) ==
    IF S = {} THEN 0
    ELSE LET i == CHOOSE j \in S : TRUE
         IN  AtomLen(t[i]) - 1 + Beyond(t, S \ {i})

\* len(t) of a text t
TextLen(t) == Len(t) + Beyond(t, {i \in 1..Len(t) : t[i] \in Literals})

\* the text formatObservation made of the stdout of o, before the exit code was put
\* in front of it to give the observation c
BeforePrefix(o, c) ==
    IF o.ExitCode = 0 THEN c
    ELSE SubSeq(c, 2 + Len(Itoa(o.ExitCode)) + 1, Len(c))

\* C38: unless the stdout is blank and the exit code 0, the text formatObservation
\* makes of a stdout within the budget (before any exit-code prefix) is as long
\* as the stdout, and the text it makes of a stdout longer than the budget is as
\* long as the budget and the truncation notice together, so that it is shorter
\* than the stdout exactly when the stdout is longer than the budget by more
\* than the notice.
C38_BoundedLength ==
    (pc = "observed" /\ ~(BlankStdout(output) /\ output.ExitCode = 0)) =>
        LET body == TextLen(BeforePrefix(output, messages[Len(messages)].Content))
            n == TextLen(output.Stdout)
        IN  IF n <= maxLen THEN body = n
            ELSE /\ body = maxLen + AtomLen(TruncationNotice[1])
                 /\ body < n <=> n > maxLen + AtomLen(TruncationNotice[1])

\* a stdout one character longer than the budget was cut, and the text body of it is
\* longer than the stdout
C38_Witness ==
    /\ pc = "observed"
    /\ output.ExitCode = 0
    /\ Len(output.Stdout) = maxLen + 1
    /\ TextLen(messages[Len(messages)].Content) > TextLen(output.Stdout)

\* C38 as stated: the text formatObservation makes of a stdout is never longer than
\* the stdout, and shorter when the stdout is longer than the budget
C38_NeverLengthens ==
    pc = "observed" =>
        LET body == TextLen(BeforePrefix(output, messages[Len(messages)].Content))
            n == TextLen(output.Stdout)
        IN  /\ body <= n
            /\ n > maxLen => body < n

\* what a command may have written to stderr
Stderrs == {<<>>, <<"e">>, <<"w", "\n">>}

\* C39: the observation appended after a successful command depends on the stdout
\* and the exit code only: an Output that differs from the one observed in its
\* stderr alone gives the same observation, and a command that exited with 0 and
\* wrote to stderr only is reported as "(no output)".
C39_StderrIgnored ==
    pc = "observed" =>
        LET observation == messages[Len(messages)]
        IN  /\ observation.Role = "user"
            /\ \A e \in Stderrs :
                  formatObservation([output EXCEPT !.Stderr = e]) = observation.Content
            /\ (output.Stdout = <<>> /\ output.Stderr # <<>> /\ output.ExitCode = 0) =>
                  observation.Content = <<"(no output)">>

\* a command that exited with 0 and wrote to stderr only was observed
C39_Witness ==
    /\ pc = "observed"
    /\ output.Stdout = <<>>
    /\ output.Stderr = <<"e">>
    /\ output.ExitCode = 0
    /\ messages[Len(messages)].Content = <<"(no output)">>

====
